---------------------------- MODULE Spec2Model ----------------------------
(***************************************************************************)
(* Login-attempt ledger, lockout decision and secure-login orchestration   *)
(* of the Next.js / Supabase SaaS template.                                *)
(*                                                                         *)
(*   login_attempts   the public.login_attempts table (a bag of rows; the  *)
(*                    uuid primary key is left out, user_agent likewise:   *)
(*                    no query of the code filters or orders on either)    *)
(*   security_events  the public.security_events table (a bag of rows)     *)
(*   alerts           the eventTypes handed to alertSecurityTeam           *)
(*   now              the clock, in minutes (NOW() and Date.now())         *)
(*   req              the secure-login requests in flight                  *)
(*   faults           the failed calls of a collaborator so far            *)
(*   ret              what the last call of an auth-security utility       *)
(*                    returned to its caller                               *)
(*   cleared          the pair clearFailedAttempts last cleared, the       *)
(*                    failed rows it had then and the failed attempts      *)
(*                    logged for it since                                  *)
(***************************************************************************)
EXTENDS Integers, Sequences, FiniteSets, Bags, TLC

VARIABLES now, faults, login_attempts, security_events, alerts, req, ret,
          cleared, data_retention_policy, tokens, posts, rateLimitMap,
          unswept, grants, quota

vars == <<now, faults, login_attempts, security_events, alerts, req, ret,
          cleared, data_retention_policy, tokens, posts, rateLimitMap,
          unswept, grants, quota>>

\* The in-memory rate limiter of utils/security: its map, the map as it
\* would be had no cleanup ever run, the calls allowed to each identifier
\* since its window began, and the arguments the callers pass.
limiter == <<rateLimitMap, unswept, grants, quota>>

\* The state besides the login tables: the pending deletion requests, the
\* token bucket of ajAuth, the POSTs made since it was full, and the
\* in-memory rate limiter.
beyond == <<data_retention_policy, tokens, posts, limiter>>

-----------------------------------------------------------------------------
(* Program constants *)

\* is_account_locked: INTERVAL '15 minutes'; checkAccountLockout: 15 * 60 * 1000 ms
WINDOW == 15
\* is_account_locked: failed_attempts >= 5; checkAccountLockout: Math.max(0, 5 - failedCount)
MAX_FAILURES == 5
\* minutes the suspicious-activity checks look back
HOUR == 60
\* the token bucket of ajAuth: tokens it holds, tokens a call takes, tokens
\* added when an interval (300 seconds) has passed
CAPACITY == 5
REQUESTED == 1
REFILL_RATE == 3
\* interval: 300 (seconds), in minutes
INTERVAL == 5
\* distinct emails one IP may fail for before it is suspicious
MAX_EMAILS == 10
\* failed logins of a subject in 15 minutes that make it suspicious
SUSPICIOUS_MINUTES == 15
SUSPICIOUS_FAILURES == 5
\* distinct IPs of a subject in an hour that do not yet make it suspicious
MAX_IPS == 3
\* minutes of login history checkSuspiciousLogin looks back (7 days)
WEEK == 10080

(* Bounds of the model *)

\* rows the login_attempts table may hold
MaxRows == 6
\* rows with successful = TRUE the table may hold
MaxSuccessRows == 1
\* rows the table may hold besides the failed rows of the pair that has the
\* most: one pair at a time is under attack, the others see little traffic
LightRows == 1
\* the last minute the clock reaches
MaxTime == 16
\* rows the security_events table may hold
MaxEvents == 7
\* calls of a collaborator (store, provider, rate limiter, body parser) that
\* fail while login requests are served
MaxFaults == 1
\* rows the security_events table may hold when logSecurityEvent is called
\* from outside the login route
MaxAudit == 2
\* the last minute the clock reaches when it advances by about an hour
MaxHour == 61
\* identities one origin attacks
MaxTargets == 11
\* rows of security_events the subject under watch may have
MaxWatched == 5
\* origins the events come from
MaxOrigins == 4
\* POSTs of a client to the login route counted since its bucket was full
MaxPosts == 6
\* the largest limit the history is asked with
MaxLimit == 2

\* The clock advances by a minute less than a window, by a whole window, or
\* by a minute more.
TickSteps == {WINDOW - 1, WINDOW, WINDOW + 1}
\* The same around the hour the heuristics look back.
HourSteps == {HOUR - 1, HOUR, HOUR + 1}

Emails == {"alice@example.com", "bob@example.com"}
\* The origins a subject is seen from when it moves between many.
Origins == <<"10.0.0.1", "10.0.0.2", "10.0.0.3", "10.0.0.4", "10.0.0.5",
             "10.0.0.6">>
\* The identities an origin works through when it tries many accounts.
Targets ==
    <<"t01@example.com", "t02@example.com", "t03@example.com", "t04@example.com",
      "t05@example.com", "t06@example.com", "t07@example.com", "t08@example.com",
      "t09@example.com", "t10@example.com", "t11@example.com", "t12@example.com",
      "t13@example.com">>
IPs == {"1.2.3.4", "9.9.9.9"}
\* The sources ip.src the rate limiter keeps a bucket for.
Clients == IPs

\* How a call to the store (a PostgREST request of the supabase client) can end:
\* it resolves with a result, it resolves with {error}, or the promise rejects.
StoreOutcomes == {"ok", "error", "throw"}

Null == "null"

-----------------------------------------------------------------------------
(* Bags of rows *)

\* The rows of bag B for which Test holds, with their multiplicities.
Filter(B, Test(_)) == [r \in {x \in DOMAIN B : Test(x)} |-> B[r]]

Insert(B, row) == B (+) SetToBag({row})

Size(B) == BagCardinality(B)

LoginAttempt(email, ipAddress, successful, at) ==
    [email |-> email, ip_address |-> ipAddress, successful |-> successful,
     attempted_at |-> at]

-----------------------------------------------------------------------------
(* The lockout function of the database *)

\* SELECT COUNT(*) ... WHERE email = user_email AND ip_address = user_ip
\*   AND successful = FALSE AND attempted_at > NOW() - INTERVAL '15 minutes'
failed_attempts(attempts, t, user_email, user_ip) ==
    Size(Filter(attempts, LAMBDA r : /\ r.email = user_email
                                     /\ r.ip_address = user_ip
                                     /\ r.successful = FALSE
                                     /\ r.attempted_at > t - WINDOW))

\* RETURN failed_attempts >= 5
is_account_locked_off_by_one(attempts, t, user_email, user_ip) ==
    failed_attempts(attempts, t, user_email, user_ip) > MAX_FAILURES

is_account_locked_per_email(attempts, t, user_email, user_ip) ==
    Size(Filter(attempts, LAMBDA r : /\ r.email = user_email
                                     /\ r.successful = FALSE
                                     /\ r.attempted_at > t - WINDOW))
        >= MAX_FAILURES

is_account_locked(attempts, t, user_email, user_ip) ==
    failed_attempts(attempts, t, user_email, user_ip) >= MAX_FAILURES


-----------------------------------------------------------------------------
(* The supabase client *)

\* A value that may be null: data of a response, or the array it holds.
NullData == [null |-> TRUE, rows |-> EmptyBag]
Data(rows) == [null |-> FALSE, rows |-> rows]

\* What a select of the query builder resolves to. With { head: true } the
\* request is a HEAD request: the response carries no rows, data is null and
\* only count is set. With {error} data is null too.
PostgrestSelect(rows, head, outcome) ==
    IF outcome = "ok"
    THEN [data |-> IF head THEN NullData ELSE Data(rows),
          count |-> Size(rows), error |-> FALSE]
    ELSE [data |-> NullData, count |-> 0, error |-> TRUE]

\* data?.length || 0  and  attempts?.length || 0
LengthOrZero(data) == IF data.null THEN 0 ELSE Size(data.rows)

Max(a, b) == IF a >= b THEN a ELSE b

-----------------------------------------------------------------------------
(* utils/auth-security *)

\* (The variant without the .gte filter.)
FailedSince_unwindowed(attempts, t, email, ipAddress, windowMinutes) ==
    Filter(attempts, LAMBDA r : /\ r.email = email
                                /\ r.ip_address = ipAddress
                                /\ r.successful = FALSE)

\* .eq('email', email).eq('ip_address', ipAddress).eq('successful', false)
\* .gte('attempted_at', new Date(Date.now() - windowMinutes * 60 * 1000))
FailedSince(attempts, t, email, ipAddress, windowMinutes) ==
    Filter(attempts, LAMBDA r : /\ r.email = email
                                /\ r.ip_address = ipAddress
                                /\ r.successful = FALSE
                                /\ r.attempted_at >= t - windowMinutes)

\* The decision checkAccountLockout returns; remainingAttempts is {} when the
\* returned object has no such member. rpc is how the is_account_locked call
\* ended, sel how the select of the remaining attempts ended.
checkAccountLockout(attempts, t, email, ipAddress, rpc, sel) ==
    LET data == is_account_locked(attempts, t, email, ipAddress)
        resp == PostgrestSelect(FailedSince(attempts, t, email, ipAddress, WINDOW),
                                FALSE, sel)
        failedCount == LengthOrZero(resp.data)
    IN  IF rpc # "ok"
        THEN [locked |-> FALSE, remainingAttempts |-> {}]
        ELSE IF data = TRUE
        THEN [locked |-> TRUE, remainingAttempts |-> {}]
        ELSE IF sel = "throw"
        THEN [locked |-> FALSE, remainingAttempts |-> {}]
        ELSE [locked |-> FALSE,
              remainingAttempts |-> {Max(0, MAX_FAILURES - failedCount)}]

\* The table after logLoginAttempt(data): the row is appended, or the store
\* failed and the error was swallowed.
logLoginAttempt(attempts, t, email, ipAddress, successful, outcome) ==
    IF outcome = "ok"
    THEN Insert(attempts, LoginAttempt(email, ipAddress, successful, t))
    ELSE attempts

\* The table after clearFailedAttempts(email, ipAddress).
\* (The variant that deletes the rows whose flag is TRUE.)
clearFailedAttempts_successful_rows(attempts, email, ipAddress, outcome) ==
    IF outcome = "ok"
    THEN Filter(attempts, LAMBDA r : ~ (/\ r.email = email
                                        /\ r.ip_address = ipAddress
                                        /\ r.successful = TRUE))
    ELSE attempts

clearFailedAttempts(attempts, email, ipAddress, outcome) ==
    IF outcome = "ok"
    THEN Filter(attempts, LAMBDA r : ~ (/\ r.email = email
                                        /\ r.ip_address = ipAddress
                                        /\ r.successful = FALSE))
    ELSE attempts

\* The number getFailedAttemptsCount returns.
getFailedAttemptsCount(attempts, t, email, ipAddress, windowMinutes, outcome) ==
    LET resp == PostgrestSelect(
                    FailedSince(attempts, t, email, ipAddress, windowMinutes),
                    TRUE, outcome)
    IN  IF outcome = "throw" THEN 0
        ELSE IF resp.error THEN 0
        ELSE LengthOrZero(resp.data)

\* .order('attempted_at', { ascending: false }): the enumerations of the
\* rows with later rows first; rows of the same instant come in any order.
RECURSIVE OrderDescending(_)
OrderDescending(B) ==
    IF BagToSet(B) = {} THEN {<<>>}
    ELSE UNION {{<<r>> \o s : s \in OrderDescending(B (-) SetToBag({r}))} :
                  r \in {x \in BagToSet(B) : \A y \in BagToSet(B) :
                                                 y.attempted_at <= x.attempted_at}}

RECURSIVE OrderAscending(_)
OrderAscending(B) ==
    IF BagToSet(B) = {} THEN {<<>>}
    ELSE UNION {{<<r>> \o s : s \in OrderAscending(B (-) SetToBag({r}))} :
                  r \in {x \in BagToSet(B) : \A y \in BagToSet(B) :
                                                 y.attempted_at >= x.attempted_at}}

\* .limit(n)
Limit(s, n) == SubSeq(s, 1, IF n < Len(s) THEN n ELSE Len(s))

\* (The variant that orders the rows oldest first.)
getLoginHistory_ascending(attempts, email, limit, outcome) ==
    IF outcome # "ok" THEN {<<>>}
    ELSE {Limit(s, limit) :
            s \in OrderAscending(Filter(attempts, LAMBDA r : r.email = email))}

\* getLoginHistory(email, limit): the sequences the store may answer.
getLoginHistory(attempts, email, limit, outcome) ==
    IF outcome # "ok" THEN {<<>>}
    ELSE {Limit(s, limit) :
            s \in OrderDescending(Filter(attempts, LAMBDA r : r.email = email))}

\* (The variant that counts rows instead of distinct emails.)
checkSuspiciousIP_counts_rows(attempts, t, ipAddress, outcome) ==
    /\ outcome = "ok"
    /\ Size(Filter(attempts, LAMBDA r : /\ r.ip_address = ipAddress
                                        /\ r.successful = FALSE
                                        /\ r.attempted_at >= t - HOUR)) > MAX_EMAILS

\* checkSuspiciousIP: data is null when the select failed, and a rejected
\* select is caught.
checkSuspiciousIP(attempts, t, ipAddress, outcome) ==
    LET resp == PostgrestSelect(Filter(attempts,
                    LAMBDA r : /\ r.ip_address = ipAddress
                               /\ r.successful = FALSE
                               /\ r.attempted_at >= t - HOUR), FALSE, outcome)
    IN  IF outcome = "throw" \/ resp.data.null
        THEN FALSE
        ELSE LET uniqueEmails == {d.email : d \in BagToSet(resp.data.rows)}
             IN  Cardinality(uniqueEmails) > MAX_EMAILS

-----------------------------------------------------------------------------
(* lib/security-monitoring *)

SecurityEventType ==
    {"login_success", "login_failure", "account_locked", "password_reset",
     "password_change", "mfa_enabled", "mfa_disabled", "suspicious_activity",
     "data_export", "data_deletion", "payment_change", "subscription_created",
     "subscription_cancelled", "api_key_created", "api_key_revoked",
     "unauthorized_access", "rate_limit_exceeded"}

LOGIN_SUCCESS == "login_success"
LOGIN_FAILURE == "login_failure"
ACCOUNT_LOCKED == "account_locked"
MFA_ENABLED == "mfa_enabled"
DATA_DELETION == "data_deletion"

\* A row of security_events; metadata is left out (no query reads it).
SecurityEvent(userId, eventType, ipAddress, at) ==
    [user_id |-> userId, event_type |-> eventType, ip_address |-> ipAddress,
     created_at |-> at]

\* (The list without its last entry.)
criticalEvents_without_deletion ==
    {"suspicious_activity", "account_locked", "unauthorized_access"}

criticalEvents ==
    {"suspicious_activity", "account_locked", "unauthorized_access", "data_deletion"}

shouldAlert(eventType) == eventType \in criticalEvents

\* (The variant that keeps one row per subject and event type: an upsert.)
logSecurityEvent_upsert(events, t, userId, eventType, ipAddress, outcome) ==
    IF outcome = "ok"
    THEN Insert(Filter(events, LAMBDA e : ~ (/\ e.user_id = userId
                                             /\ e.event_type = eventType)),
                SecurityEvent(userId, eventType, ipAddress, t))
    ELSE events

\* The table after logSecurityEvent: the row is inserted unless the store failed.
logSecurityEvent(events, t, userId, eventType, ipAddress, outcome) ==
    IF outcome = "ok"
    THEN Insert(events, SecurityEvent(userId, eventType, ipAddress, t))
    ELSE events

\* The alerts after logSecurityEvent: alertSecurityTeam is reached unless the
\* insert threw (an {error} result of the insert is not looked at), and the
\* alert is out unless alertSecurityTeam itself failed.
alertSecurityTeam(sent, eventType, outcome, alert) ==
    IF outcome # "throw" /\ shouldAlert(eventType) /\ alert = "ok"
    THEN Insert(sent, eventType)
    ELSE sent

MULTIPLE_FAILED == "Multiple failed login attempts"
MULTIPLE_IPS == "Multiple IP addresses in short time"

\* The result of detectSuspiciousActivity: it resolves with { suspicious,
\* reason? }, or it rejects.
Suspicious(reason) == [threw |-> FALSE, suspicious |-> TRUE, reason |-> reason]
NotSuspicious == [threw |-> FALSE, suspicious |-> FALSE, reason |-> Null]
Rejected == [threw |-> TRUE, suspicious |-> FALSE, reason |-> Null]

\* security_events rows of the subject since `minutes` ago.
EventsSince(events, t, userId, minutes) ==
    Filter(events, LAMBDA e : e.user_id = userId /\ e.created_at >= t - minutes)

\* (The variant that needs one failure more.)
detectSuspiciousActivity_off_by_one(events, t, userId, ipAddress, first, second) ==
    IF first = "ok" /\ second = "ok"
    THEN IF Size(Filter(EventsSince(events, t, userId, SUSPICIOUS_MINUTES),
                        LAMBDA e : e.event_type = LOGIN_FAILURE))
               > SUSPICIOUS_FAILURES
         THEN Suspicious(MULTIPLE_FAILED)
         ELSE NotSuspicious
    ELSE NotSuspicious

\* detectSuspiciousActivity: first is how the select of the failed logins
\* ends and second how the select of the recent events does. The selects are
\* awaited outside any try, and only data is read from their results.
detectSuspiciousActivity(events, t, userId, ipAddress, first, second) ==
    LET failedLogins ==
            PostgrestSelect(
                Filter(EventsSince(events, t, userId, SUSPICIOUS_MINUTES),
                       LAMBDA e : e.event_type = LOGIN_FAILURE),
                FALSE, first).data
        recentEvents ==
            PostgrestSelect(EventsSince(events, t, userId, HOUR), FALSE,
                            second).data
        uniqueIps == {e.ip_address : e \in BagToSet(recentEvents.rows)}
    IN  IF first = "throw" THEN Rejected
        ELSE IF ~ failedLogins.null
                /\ Size(failedLogins.rows) >= SUSPICIOUS_FAILURES
        THEN Suspicious(MULTIPLE_FAILED)
        ELSE IF second = "throw" THEN Rejected
        ELSE IF ~ recentEvents.null /\ Cardinality(uniqueIps) > MAX_IPS
        THEN Suspicious(MULTIPLE_IPS)
        ELSE NotSuspicious

-----------------------------------------------------------------------------
(* utils/auth-security: checkSuspiciousLogin, which reads both tables *)

NEW_IP == "Login from new IP address"
SUSPICIOUS_IP == "IP address has suspicious activity"

\* checkSuspiciousLogin: q1, q2 are how the selects of the recent logins and
\* of the recent events end, q3 how the select of checkSuspiciousIP does. A
\* rejected select is caught. (The tables of the model hold fewer than 20
\* rows, so .limit(20) cuts nothing off.)
checkSuspiciousLogin(events, attempts, t, userId, ipAddress, q1, q2, q3) ==
    LET recentLogins ==
            PostgrestSelect(
                Filter(EventsSince(events, t, userId, WEEK),
                       LAMBDA e : e.event_type = LOGIN_SUCCESS),
                FALSE, q1).data
        knownIPs == {l.ip_address : l \in BagToSet(recentLogins.rows)}
        recentEvents ==
            PostgrestSelect(EventsSince(events, t, userId, HOUR), FALSE, q2).data
        uniqueIPs == {e.ip_address : e \in BagToSet(recentEvents.rows)}
        reasons ==
            (IF ~ recentLogins.null /\ ipAddress \notin knownIPs
                /\ Cardinality(knownIPs) > 0
             THEN {NEW_IP} ELSE {})
            \cup (IF ~ recentEvents.null /\ Cardinality(uniqueIPs) > MAX_IPS
                  THEN {MULTIPLE_IPS} ELSE {})
            \cup (IF checkSuspiciousIP(attempts, t, ipAddress, q3)
                  THEN {SUSPICIOUS_IP} ELSE {})
    IN  IF q1 = "throw" \/ q2 = "throw"
        THEN [suspicious |-> FALSE, reasons |-> {}]
        ELSE [suspicious |-> reasons # {}, reasons |-> reasons]

-----------------------------------------------------------------------------
(* app/api/auth/secure-login/route.ts *)

\* The lockout check of the route: locked on an RPC error as well.
route_checkAccountLockout_any_ip(attempts, t, email, ipAddress, rpc) ==
    [locked |-> rpc = "error"
                \/ is_account_locked_per_email(attempts, t, email, ipAddress)]

route_checkAccountLockout(attempts, t, email, ipAddress, rpc) ==
    [locked |-> rpc = "error" \/ is_account_locked(attempts, t, email, ipAddress)]

\* The table after the route's logLoginAttempt resolved (outcome is not "throw").
route_logLoginAttempt(attempts, t, email, ipAddress, successful, outcome) ==
    IF outcome = "ok"
    THEN Insert(attempts, LoginAttempt(email, ipAddress, successful, t))
    ELSE attempts

\* error.message of the identity provider's answer
FailureReasons == {"Invalid login credentials", "Email not confirmed"}

\* The error (or success) member of the response bodies.
RATE_LIMITED == "Too many login attempts. Please try again later."
FIELDS_REQUIRED == "Email and password are required"
LOCKED_MESSAGE ==
    "Account temporarily locked due to multiple failed attempts. Try again in 15 minutes."
INVALID_CREDENTIALS == "Invalid email or password"
INTERNAL_ERROR == "An error occurred during login"
SUCCESS == "success"

\* data.user.id of the identity provider's answer
UserId(email) == IF email = "alice@example.com" THEN "user-alice" ELSE "user-bob"

-----------------------------------------------------------------------------
(* State *)

NoRet == [op |-> "none"]
NoClear == [email |-> Null, ip |-> Null, had |-> 0, failures |-> 0]
\* A request: where the handler stands (pc), what it read from the request
\* (ip, email), what its collaborators answered (rate, rpc, lockout, verdict,
\* reason), whether a step threw, how often it called signInWithPassword
\* (signIn), the calls of logLoginAttempt (rows) and of logSecurityEvent
\* (events) it made, and the response it sent (status, body).
IdleReq == [pc |-> "idle", ip |-> Null, email |-> Null, rate |-> "none",
            rpc |-> "none", lockout |-> "none", verdict |-> "none",
            reason |-> "none", threw |-> FALSE, signIn |-> 0,
            rows |-> <<>>, events |-> <<>>, status |-> 0, body |-> "none"]

\* A call logSecurityEvent(userId, eventType, ...) and whether the store
\* took the row.
Logged(eventType, userId, outcome) ==
    [event_type |-> eventType, user_id |-> userId, stored |-> outcome = "ok"]
Reqs == {1, 2}

SuccessRows(attempts) == Size(Filter(attempts, LAMBDA r : r.successful))

RowsOf(attempts, email, ipAddress) ==
    Size(Filter(attempts, LAMBDA r : r.email = email /\ r.ip_address = ipAddress))

\* The bounds of the model allow one more row for a target: one origin works
\* through the targets in order with one failed attempt each, and only the
\* first target sees anything else (a repeated attempt, a successful login,
\* another origin).
CanFanOut(attempts, email, ipAddress, successful) ==
    LET seen == {r.email : r \in BagToSet(attempts)}
        n == Cardinality(seen)
    IN  IF email = Targets[1]
        THEN /\ Size(Filter(attempts, LAMBDA x : x.email = email)) <= LightRows
             /\ successful => SuccessRows(attempts) < MaxSuccessRows
        ELSE /\ n < MaxTargets
             /\ email = Targets[n + 1]
             /\ ~ successful
             /\ \A x \in BagToSet(attempts) :
                   x.email # Targets[1] => x.ip_address = ipAddress

\* The bounds of the model allow one more row for the pair.
CanRecord(attempts, email, ipAddress, successful) ==
    LET next == Insert(attempts, LoginAttempt(email, ipAddress, successful, now))
    IN  IF \E k \in DOMAIN Targets : Targets[k] = email
        THEN CanFanOut(attempts, email, ipAddress, successful)
        ELSE /\ Size(next) <= MaxRows
             /\ successful => SuccessRows(next) <= MaxSuccessRows
             /\ \E e \in Emails, i \in IPs :
                   Size(next) - RowsOf(Filter(next, LAMBDA x : x.successful = FALSE),
                                       e, i) <= LightRows

\* rateLimitMap.get(identifier) of an identifier without entry.
Absent == [present |-> FALSE, count |-> 0, resetAt |-> 0]
\* No call of the identifier was allowed yet: when its latest window began
\* and how many calls were allowed from then up to the window's resetAt.
NoGrant == [start |-> -1, n |-> 0]
\* The identifiers callers pass: email + ipAddress.
Identifiers == {"alice@example.com1.2.3.4", "bob@example.com1.2.3.4"}
\* checkRateLimit(email + ipAddress, 5, 15 * 60 * 1000), in minutes
USAGE == [maxRequests |-> MAX_FAILURES, windowMs |-> WINDOW]

\* Everything but the arguments the callers of the limiter pass.
Origin ==
    /\ now = 0
    /\ faults = 0
    /\ login_attempts = EmptyBag
    /\ security_events = EmptyBag
    /\ alerts = EmptyBag
    /\ req = [r \in Reqs |-> IdleReq]
    /\ ret = NoRet
    /\ cleared = NoClear
    /\ data_retention_policy = {}
    /\ tokens = [i \in Clients |-> CAPACITY]
    /\ posts = [i \in Clients |-> 0]
    /\ rateLimitMap = [k \in Identifiers |-> Absent]
    /\ unswept = [k \in Identifiers |-> Absent]
    /\ grants = [k \in Identifiers |-> NoGrant]

Init ==
    /\ Origin
    /\ quota = USAGE

\* Time passes.
Tick(d) ==
    /\ now + d <= MaxTime
    /\ now' = now + d
    /\ ret' = NoRet
    /\ UNCHANGED <<beyond, faults, login_attempts, security_events, alerts, req, cleared>>

\* About an hour passes.
Elapse(d) ==
    /\ now + d <= MaxHour
    /\ now' = now + d
    /\ ret' = NoRet
    /\ UNCHANGED <<beyond, faults, login_attempts, security_events, alerts, req, cleared>>

-----------------------------------------------------------------------------
(* Calls of the auth-security utilities *)

\* (The variant that books every evaluation as a failed attempt.)
CallCheckAccountLockout_records(email, ipAddress) ==
    /\ CanRecord(login_attempts, email, ipAddress, FALSE)
    /\ login_attempts' = Insert(login_attempts,
                                LoginAttempt(email, ipAddress, FALSE, now))
    /\ ret' = [op |-> "checkAccountLockout", email |-> email, ip |-> ipAddress,
               ok |-> TRUE,
               value |-> checkAccountLockout(login_attempts, now, email,
                                             ipAddress, "ok", "ok")]
    /\ UNCHANGED <<beyond, now, faults, security_events, alerts, req, cleared>>

\* rpc is how the is_account_locked call ends and sel how the select ends,
\* which is reached only after an RPC that answered "not locked".
CallCheckAccountLockout(email, ipAddress) ==
    \E rpc \in StoreOutcomes :
    \E sel \in IF rpc = "ok" /\ ~ is_account_locked(login_attempts, now, email, ipAddress)
               THEN StoreOutcomes ELSE {"ok"} :
       /\ ret' = [op |-> "checkAccountLockout", email |-> email, ip |-> ipAddress,
                  ok |-> (rpc = "ok" /\ sel = "ok"),
                  value |-> checkAccountLockout(login_attempts, now, email,
                                                ipAddress, rpc, sel)]
       /\ UNCHANGED <<beyond, now, faults, login_attempts, security_events, alerts, req,
                      cleared>>

CallLogLoginAttempt(email, ipAddress, successful) ==
    /\ CanRecord(login_attempts, email, ipAddress, successful)
    /\ \E outcome \in StoreOutcomes :
         /\ login_attempts' = logLoginAttempt(login_attempts, now, email,
                                              ipAddress, successful, outcome)
         /\ cleared' = IF /\ cleared.email = email
                          /\ cleared.ip = ipAddress
                          /\ ~ successful
                          /\ outcome = "ok"
                       THEN [cleared EXCEPT !.failures = @ + 1]
                       ELSE cleared
    /\ ret' = [op |-> "logLoginAttempt"]
    /\ UNCHANGED <<beyond, now, faults, security_events, alerts, req>>

CallClearFailedAttempts(email, ipAddress) ==
    /\ \E outcome \in StoreOutcomes :
         /\ login_attempts' = clearFailedAttempts(login_attempts, email,
                                                  ipAddress, outcome)
         /\ cleared' = IF outcome = "ok"
                       THEN [email |-> email, ip |-> ipAddress,
                             had |-> RowsOf(Filter(login_attempts,
                                        LAMBDA x : x.successful = FALSE),
                                        email, ipAddress),
                             failures |-> 0]
                       ELSE cleared
         /\ ret' = [op |-> "clearFailedAttempts", ok |-> (outcome = "ok")]
    /\ UNCHANGED <<beyond, now, faults, security_events, alerts, req>>

CallGetFailedAttemptsCount(email, ipAddress) ==
    \E outcome \in StoreOutcomes :
       /\ ret' = [op |-> "getFailedAttemptsCount", email |-> email,
                  ip |-> ipAddress, ok |-> (outcome = "ok"),
                  value |-> getFailedAttemptsCount(login_attempts, now, email,
                                                   ipAddress, WINDOW, outcome)]
       /\ UNCHANGED <<beyond, now, faults, login_attempts, security_events, alerts, req,
                      cleared>>

CallGetLoginHistory(email, limit) ==
    \E outcome \in StoreOutcomes :
       \E value \in getLoginHistory(login_attempts, email, limit, outcome) :
          /\ ret' = [op |-> "getLoginHistory", email |-> email,
                     limit |-> limit, ok |-> (outcome = "ok"), value |-> value]
          /\ UNCHANGED <<beyond, now, faults, login_attempts, security_events,
                         alerts, req, cleared>>

CallCheckSuspiciousIP(ipAddress) ==
    \E outcome \in StoreOutcomes :
       /\ ret' = [op |-> "checkSuspiciousIP", ip |-> ipAddress,
                  ok |-> (outcome = "ok"),
                  value |-> checkSuspiciousIP(login_attempts, now, ipAddress,
                                              outcome)]
       /\ UNCHANGED <<beyond, now, faults, login_attempts, security_events, alerts, req,
                      cleared>>

-----------------------------------------------------------------------------
(* POST /api/auth/secure-login, one action per step of the handler *)

\* Calls of collaborators may fail while the fault budget lasts.
Failed(outcome) == IF outcome = "ok" THEN 0 ELSE 1

Fault(n) ==
    /\ faults + n <= MaxFaults
    /\ faults' = faults + n

\* A request arrives; getClientIp and getUserAgent read its headers.
Start(r, ipAddress) ==
    /\ req[r].pc \in {"idle", "done", "FORWARDED"}
    /\ Size(security_events) < MaxEvents
    /\ req' = [req EXCEPT ![r] = [IdleReq EXCEPT !.pc = "RATE_CHECK",
                                                 !.ip = ipAddress]]
    /\ UNCHANGED <<beyond, now, faults, login_attempts, security_events, alerts,
                   ret, cleared>>

\* 1. ajAuth.protect(req): the decision is the rate limiter's.
\* (The variant that notes a denial and goes on.)
RateCheck_ignores_deny(r, decision) ==
    /\ req[r].pc = "RATE_CHECK"
    /\ decision # "throw"
    /\ req' = [req EXCEPT ![r] = [@ EXCEPT !.pc = "PARSE", !.rate = decision]]
    /\ UNCHANGED <<data_retention_policy, posts, limiter, now, faults,
                   login_attempts,
                   security_events, alerts, ret, cleared>>

RateCheck(r, decision) ==
    /\ req[r].pc = "RATE_CHECK"
    /\ Fault(IF decision = "throw" THEN 1 ELSE 0)
    /\ req' = [req EXCEPT ![r] =
                 IF decision = "throw"
                 THEN [@ EXCEPT !.pc = "CATCH", !.threw = TRUE]
                 ELSE IF decision = "deny"
                 THEN [@ EXCEPT !.pc = "done", !.rate = "deny", !.status = 429,
                                !.body = RATE_LIMITED]
                 ELSE [@ EXCEPT !.pc = "PARSE", !.rate = "allow"]]
    /\ UNCHANGED <<data_retention_policy, posts, limiter, now, login_attempts,
                   security_events, alerts, ret, cleared>>

\* 2. req.json(): email is Null when email or password is missing in the body.
\* (The variant without the check of the two fields.)
Parse_unvalidated(r, email, outcome) ==
    /\ req[r].pc = "PARSE"
    /\ outcome = "ok"
    /\ CanRecord(login_attempts, email, req[r].ip, FALSE)
    /\ req' = [req EXCEPT ![r] = [@ EXCEPT !.pc = "LOCKOUT_CHECK", !.email = email]]
    /\ UNCHANGED <<beyond, now, faults, login_attempts, security_events, alerts, ret,
                   cleared>>

Parse(r, email, outcome) ==
    /\ req[r].pc = "PARSE"
    /\ Fault(Failed(outcome))
    /\ outcome \in {"ok", "throw"}
    /\ email # Null => CanRecord(login_attempts, email, req[r].ip, FALSE)
    /\ req' = [req EXCEPT ![r] =
                 IF outcome = "throw"
                 THEN [@ EXCEPT !.pc = "CATCH", !.threw = TRUE]
                 ELSE IF email = Null
                 THEN [@ EXCEPT !.pc = "done", !.status = 400,
                                !.body = FIELDS_REQUIRED]
                 ELSE [@ EXCEPT !.pc = "LOCKOUT_CHECK", !.email = email]]
    /\ UNCHANGED <<beyond, now, login_attempts, security_events, alerts, ret, cleared>>

\* 3. checkAccountLockout; when locked, the account_locked event and the 429.
\* rpc is how the RPC ends, ins how the insert of the event ends and alert
\* how alertSecurityTeam ends, each reached only if the one before it succeeded.
LockoutCheck_ignores_verdict(r, rpc, ins, alert) ==
    /\ req[r].pc = "LOCKOUT_CHECK"
    /\ rpc = "ok" /\ ins = "ok" /\ alert = "ok"
    /\ req' = [req EXCEPT ![r] = [@ EXCEPT !.pc = "PROVIDER_AUTH", !.rpc = rpc,
                 !.lockout = IF route_checkAccountLockout(login_attempts, now,
                                   req[r].email, req[r].ip, rpc).locked
                             THEN "locked" ELSE "open"]]
    /\ UNCHANGED <<beyond, now, faults, login_attempts, security_events, alerts,
                   ret, cleared>>

\* (Variants of the rejection: the event logged has another type, or the
\* rejected request is booked as a failed attempt.)
LockoutCheck_variant(r, rpc, ins, alert, eventType, booked) ==
    LET locked == rpc # "throw" /\ route_checkAccountLockout(login_attempts, now,
                                       req[r].email, req[r].ip, rpc).locked
    IN  /\ req[r].pc = "LOCKOUT_CHECK"
        /\ Fault(Failed(rpc) + Failed(ins) + Failed(alert))
        /\ ~ locked => ins = "ok"
        /\ ins # "ok" => alert = "ok"
        /\ alert \in {"ok", "throw"}
        /\ security_events' =
             IF locked
             THEN logSecurityEvent(security_events, now, Null, eventType,
                                   req[r].ip, ins)
             ELSE security_events
        /\ alerts' =
             IF locked THEN alertSecurityTeam(alerts, eventType, ins, alert)
             ELSE alerts
        /\ login_attempts' =
             IF locked /\ booked
             THEN Insert(login_attempts,
                         LoginAttempt(req[r].email, req[r].ip, FALSE, now))
             ELSE login_attempts
        /\ req' = [req EXCEPT ![r] =
                     IF rpc = "throw"
                     THEN [@ EXCEPT !.pc = "CATCH", !.rpc = rpc, !.threw = TRUE]
                     ELSE IF locked
                     THEN [@ EXCEPT !.pc = "done", !.rpc = rpc,
                                    !.lockout = "locked", !.status = 429,
                                    !.body = LOCKED_MESSAGE,
                                    !.events = Append(@, Logged(eventType,
                                                                Null, ins))]
                     ELSE [@ EXCEPT !.pc = "PROVIDER_AUTH", !.rpc = rpc,
                                    !.lockout = "open"]]
        /\ UNCHANGED <<beyond, now, ret, cleared>>

LockoutCheck_logs_failure(r, rpc, ins, alert) ==
    LockoutCheck_variant(r, rpc, ins, alert, LOGIN_FAILURE, FALSE)

LockoutCheck_books_rejected(r, rpc, ins, alert) ==
    LockoutCheck_variant(r, rpc, ins, alert, ACCOUNT_LOCKED, TRUE)

LockoutCheck(r, rpc, ins, alert) ==
    LET lockout == route_checkAccountLockout(login_attempts, now, req[r].email,
                                             req[r].ip, rpc)
        locked == rpc # "throw" /\ lockout.locked
    IN  /\ req[r].pc = "LOCKOUT_CHECK"
        /\ Fault(Failed(rpc) + Failed(ins) + Failed(alert))
        /\ ~ locked => ins = "ok"
        /\ ins # "ok" => alert = "ok"
        /\ alert \in {"ok", "throw"}
        /\ security_events' =
             IF locked
             THEN logSecurityEvent(security_events, now, Null, ACCOUNT_LOCKED,
                                   req[r].ip, ins)
             ELSE security_events
        /\ alerts' =
             IF locked
             THEN alertSecurityTeam(alerts, ACCOUNT_LOCKED, ins, alert)
             ELSE alerts
        /\ req' = [req EXCEPT ![r] =
                     IF rpc = "throw"
                     THEN [@ EXCEPT !.pc = "CATCH", !.rpc = rpc, !.threw = TRUE]
                     ELSE IF lockout.locked
                     THEN [@ EXCEPT !.pc = "done", !.rpc = rpc,
                                    !.lockout = "locked", !.status = 429,
                                    !.body = LOCKED_MESSAGE,
                                    !.events = Append(@, Logged(ACCOUNT_LOCKED,
                                                                Null, ins))]
                     ELSE [@ EXCEPT !.pc = "PROVIDER_AUTH", !.rpc = rpc,
                                    !.lockout = "open"]]
        /\ UNCHANGED <<beyond, now, login_attempts, ret, cleared>>

\* 4. supabase.auth.signInWithPassword: the verdict is the identity provider's,
\* reason its error.message.
ProviderAuth(r, verdict, reason) ==
    /\ req[r].pc = "PROVIDER_AUTH"
    /\ (verdict = "error") = (reason # "none")
    /\ verdict = "ok" => CanRecord(login_attempts, req[r].email, req[r].ip, TRUE)
    /\ Fault(IF verdict = "throw" THEN 1 ELSE 0)
    /\ req' = [req EXCEPT ![r] =
                 IF verdict = "throw"
                 THEN [@ EXCEPT !.pc = "CATCH", !.signIn = @ + 1, !.threw = TRUE]
                 ELSE [@ EXCEPT !.pc = "RECORD_OUTCOME", !.signIn = @ + 1,
                                !.verdict = verdict, !.reason = reason]]
    /\ UNCHANGED <<beyond, now, login_attempts, security_events, alerts, ret, cleared>>

\* 5. logLoginAttempt(email, ipAddress, !error, userAgent)
\* (The variant that logs the attempt only inside if (error).)
RecordOutcome_failures_only(r, outcome) ==
    /\ req[r].pc = "RECORD_OUTCOME"
    /\ outcome = "ok"
    /\ login_attempts' =
         IF req[r].verdict = "ok" THEN login_attempts
         ELSE route_logLoginAttempt(login_attempts, now, req[r].email, req[r].ip,
                                    FALSE, outcome)
    /\ req' = [req EXCEPT ![r] =
                 [@ EXCEPT !.pc = "EVENT_LOG",
                           !.rows = IF req[r].verdict = "ok" THEN @
                                    ELSE Append(@, [successful |-> FALSE,
                                                    stored |-> TRUE])]]
    /\ UNCHANGED <<beyond, now, faults, security_events, alerts, ret, cleared>>

RecordOutcome(r, outcome) ==
    /\ req[r].pc = "RECORD_OUTCOME"
    /\ Fault(Failed(outcome))
    /\ login_attempts' =
         IF outcome = "throw" THEN login_attempts
         ELSE route_logLoginAttempt(login_attempts, now, req[r].email, req[r].ip,
                                    req[r].verdict = "ok", outcome)
    /\ req' = [req EXCEPT ![r] =
                 [@ EXCEPT !.pc = IF outcome = "throw" THEN "CATCH" ELSE "EVENT_LOG",
                           !.threw = (outcome = "throw"),
                           !.rows = Append(@, [successful |-> req[r].verdict = "ok",
                                               stored |-> outcome = "ok"])]]
    /\ UNCHANGED <<beyond, now, security_events, alerts, ret, cleared>>

\* 6. and 7. the login_failure event and the 401, or the login_success event
\* and the 200.
\* (The variant that logs login_success before it looks at error.)
EventLog_success_first(r, outcome) ==
    LET ok == req[r].verdict = "ok"
        userId == IF ok THEN UserId(req[r].email) ELSE Null
        first == Logged(LOGIN_SUCCESS, userId, outcome)
    IN  /\ req[r].pc = "EVENT_LOG"
        /\ outcome = "ok"
        /\ security_events' =
             IF ok THEN logSecurityEvent(security_events, now, userId,
                                         LOGIN_SUCCESS, req[r].ip, outcome)
             ELSE logSecurityEvent(security_events, now, Null, LOGIN_FAILURE,
                                   req[r].ip, outcome)
        /\ req' = [req EXCEPT ![r] =
                     [@ EXCEPT !.pc = "done",
                               !.status = IF ok THEN 200 ELSE 401,
                               !.body = IF ok THEN SUCCESS ELSE INVALID_CREDENTIALS,
                               !.events = IF ok THEN Append(@, first)
                                          ELSE Append(Append(@, first),
                                                 Logged(LOGIN_FAILURE, Null,
                                                        outcome))]]
        /\ UNCHANGED <<beyond, now, faults, login_attempts, alerts, ret, cleared>>

\* (The variant that answers a refusal with the provider's error.message.)
EventLog_leaks_reason(r, outcome) ==
    LET ok == req[r].verdict = "ok"
        eventType == IF ok THEN LOGIN_SUCCESS ELSE LOGIN_FAILURE
        userId == IF ok THEN UserId(req[r].email) ELSE Null
    IN  /\ req[r].pc = "EVENT_LOG"
        /\ Fault(Failed(outcome))
        /\ security_events' = logSecurityEvent(security_events, now, userId,
                                               eventType, req[r].ip, outcome)
        /\ req' = [req EXCEPT ![r] =
                     [@ EXCEPT !.pc = "done",
                               !.status = IF ok THEN 200 ELSE 401,
                               !.body = IF ok THEN SUCCESS ELSE req[r].reason,
                               !.events = Append(@, Logged(eventType, userId,
                                                           outcome))]]
        /\ UNCHANGED <<beyond, now, login_attempts, alerts, ret, cleared>>

\* (The variant that names the account of the email in the failure event.)
EventLog_names_account(r, outcome) ==
    LET ok == req[r].verdict = "ok"
        eventType == IF ok THEN LOGIN_SUCCESS ELSE LOGIN_FAILURE
        userId == UserId(req[r].email)
    IN  /\ req[r].pc = "EVENT_LOG"
        /\ Fault(Failed(outcome))
        /\ security_events' = logSecurityEvent(security_events, now, userId,
                                               eventType, req[r].ip, outcome)
        /\ alerts' = alertSecurityTeam(alerts, eventType, outcome, "ok")
        /\ req' = [req EXCEPT ![r] =
                     [@ EXCEPT !.pc = "done",
                               !.status = IF ok THEN 200 ELSE 401,
                               !.body = IF ok THEN SUCCESS ELSE INVALID_CREDENTIALS,
                               !.events = Append(@, Logged(eventType, userId,
                                                           outcome))]]
        /\ UNCHANGED <<beyond, now, login_attempts, ret, cleared>>

\* (The variant that sends a failed event insert to the catch.)
EventLog_escalates(r, outcome) ==
    LET ok == req[r].verdict = "ok"
        eventType == IF ok THEN LOGIN_SUCCESS ELSE LOGIN_FAILURE
        userId == IF ok THEN UserId(req[r].email) ELSE Null
    IN  /\ req[r].pc = "EVENT_LOG"
        /\ Fault(Failed(outcome))
        /\ security_events' = logSecurityEvent(security_events, now, userId,
                                               eventType, req[r].ip, outcome)
        /\ req' = [req EXCEPT ![r] =
                     IF outcome # "ok"
                     THEN [@ EXCEPT !.pc = "CATCH", !.threw = TRUE,
                                    !.events = Append(@, Logged(eventType, userId,
                                                                outcome))]
                     ELSE [@ EXCEPT !.pc = "done",
                               !.status = IF ok THEN 200 ELSE 401,
                               !.body = IF ok THEN SUCCESS ELSE INVALID_CREDENTIALS,
                               !.events = Append(@, Logged(eventType, userId,
                                                           outcome))]]
        /\ UNCHANGED <<beyond, now, login_attempts, alerts, ret, cleared>>

EventLog(r, outcome) ==
    LET ok == req[r].verdict = "ok"
        eventType == IF ok THEN LOGIN_SUCCESS ELSE LOGIN_FAILURE
        userId == IF ok THEN UserId(req[r].email) ELSE Null
    IN  /\ req[r].pc = "EVENT_LOG"
        /\ Fault(Failed(outcome))
        /\ security_events' = logSecurityEvent(security_events, now, userId,
                                               eventType, req[r].ip, outcome)
        /\ alerts' = alertSecurityTeam(alerts, eventType, outcome, "ok")
        /\ req' = [req EXCEPT ![r] =
                     [@ EXCEPT !.pc = "done",
                               !.status = IF ok THEN 200 ELSE 401,
                               !.body = IF ok THEN SUCCESS ELSE INVALID_CREDENTIALS,
                               !.events = Append(@, Logged(eventType, userId,
                                                           outcome))]]
        /\ UNCHANGED <<beyond, now, login_attempts, ret, cleared>>

\* catch (error): the login_failure event and the 500.
\* (The variant whose logSecurityEvent lets a rejected insert through: the
\* handler rejects and sends no response.)
Catch_unguarded(r, outcome) ==
    /\ req[r].pc = "CATCH"
    /\ Fault(Failed(outcome))
    /\ security_events' = logSecurityEvent(security_events, now, Null,
                                           LOGIN_FAILURE, req[r].ip, outcome)
    /\ alerts' = alertSecurityTeam(alerts, LOGIN_FAILURE, outcome, "ok")
    /\ req' = [req EXCEPT ![r] =
                 IF outcome = "throw"
                 THEN [@ EXCEPT !.pc = "REJECTED"]
                 ELSE [@ EXCEPT !.pc = "done", !.status = 500,
                                !.body = INTERNAL_ERROR,
                                !.events = Append(@, Logged(LOGIN_FAILURE, Null,
                                                            outcome))]]
    /\ UNCHANGED <<beyond, now, login_attempts, ret, cleared>>

\* (The variant that answers without logging.)
Catch_silent(r, outcome) ==
    /\ req[r].pc = "CATCH"
    /\ outcome = "ok"
    /\ req' = [req EXCEPT ![r] =
                 [@ EXCEPT !.pc = "done", !.status = 500, !.body = INTERNAL_ERROR]]
    /\ UNCHANGED <<beyond, now, faults, login_attempts, security_events, alerts, ret,
                   cleared>>

Catch(r, outcome) ==
    /\ req[r].pc = "CATCH"
    /\ Fault(Failed(outcome))
    /\ security_events' = logSecurityEvent(security_events, now, Null,
                                           LOGIN_FAILURE, req[r].ip, outcome)
    /\ alerts' = alertSecurityTeam(alerts, LOGIN_FAILURE, outcome, "ok")
    /\ req' = [req EXCEPT ![r] =
                 [@ EXCEPT !.pc = "done", !.status = 500,
                           !.body = INTERNAL_ERROR,
                           !.events = Append(@, Logged(LOGIN_FAILURE, Null,
                                                       outcome))]]
    /\ UNCHANGED <<beyond, now, login_attempts, ret, cleared>>

\* The steps of the handler once a request is in, for one account.
Handle(r) ==
    \/ \E decision \in {"allow", "deny", "throw"} :
          RateCheck(r, decision) /\ UNCHANGED tokens
    \/ \E email \in {"alice@example.com", Null}, o \in StoreOutcomes :
          Parse(r, email, o)
    \/ \E rpc \in StoreOutcomes, ins \in StoreOutcomes, alert \in StoreOutcomes :
          LockoutCheck(r, rpc, ins, alert)
    \/ \E verdict \in {"ok", "error", "throw"}, reason \in FailureReasons \cup {"none"} :
          ProviderAuth(r, verdict, reason)
    \/ \E o \in StoreOutcomes : RecordOutcome(r, o)
    \/ \E o \in StoreOutcomes : EventLog(r, o)
    \/ \E o \in StoreOutcomes : Catch(r, o)

\* The collaborators fail again later: the failures counted start anew.
Recover ==
    /\ faults > 0
    /\ faults' = 0
    /\ UNCHANGED <<beyond, now, login_attempts, security_events, alerts, req,
                   ret, cleared>>

POST(r) ==
    \/ \E ip \in IPs : Start(r, ip)
    \/ \E decision \in {"allow", "deny", "throw"} :
          RateCheck(r, decision) /\ UNCHANGED tokens
    \/ \E email \in Emails \cup {Null}, o \in StoreOutcomes : Parse(r, email, o)
    \/ \E rpc \in StoreOutcomes, ins \in StoreOutcomes, alert \in StoreOutcomes :
          LockoutCheck(r, rpc, ins, alert)
    \/ \E verdict \in {"ok", "error", "throw"}, reason \in FailureReasons \cup {"none"} :
          ProviderAuth(r, verdict, reason)
    \/ \E o \in StoreOutcomes : RecordOutcome(r, o)
    \/ \E o \in StoreOutcomes : EventLog(r, o)
    \/ \E o \in StoreOutcomes : Catch(r, o)

-----------------------------------------------------------------------------
(* Calls of lib/security-monitoring *)

Users == {"user-alice", "user-bob"}

\* logSecurityEvent(userId, eventType, metadata, ipAddress, userAgent): ins is
\* how the insert ends. alertSecurityTeam only writes to the console.
\* The bounds of the model allow one more event from one of the origins: the
\* subject under watch is user-alice, who is seen from the first origin and,
\* once each, from the ones after it in their order; other subjects have few
\* events, and few events are not failed logins.
CanWatch(events, userId, eventType, ipAddress) ==
    LET seen == {e.ip_address : e \in BagToSet(events)}
        n == Cardinality(seen)
    IN  /\ \/ ipAddress = Origins[1]
           \/ n < MaxOrigins /\ n >= 1 /\ ipAddress = Origins[n + 1]
        /\ IF userId = "user-alice"
           THEN Size(Filter(events, LAMBDA e : e.user_id = userId)) < MaxWatched
           ELSE Size(Filter(events, LAMBDA e : e.user_id # "user-alice"))
                   < LightRows
        /\ eventType # LOGIN_FAILURE =>
              Size(Filter(events, LAMBDA e : e.event_type # LOGIN_FAILURE))
                 < MaxSuccessRows

CallLogSecurityEvent(userId, eventType, ipAddress, ins) ==
    /\ IF ipAddress \in IPs
       THEN Size(security_events) < MaxAudit
       ELSE CanWatch(security_events, userId, eventType, ipAddress)
    /\ Fault(Failed(ins))
    /\ security_events' = logSecurityEvent(security_events, now, userId,
                                           eventType, ipAddress, ins)
    /\ alerts' = alertSecurityTeam(alerts, eventType, ins, "ok")
    /\ ret' = [op |-> "logSecurityEvent"]
    /\ UNCHANGED <<beyond, now, login_attempts, req, cleared>>

-----------------------------------------------------------------------------
(* app/api/auth/mfa and app/api/gdpr/delete-account: the handlers, one action
   each. user is the user of the session, Null without one. *)

\* The handler logs an event, or it does not get that far.
Audit(logs, userId, eventType, ipAddress, ins) ==
    IF logs
    THEN /\ Size(security_events) < MaxAudit
         /\ security_events' = logSecurityEvent(security_events, now, userId,
                                                eventType, ipAddress, ins)
         /\ alerts' = alertSecurityTeam(alerts, eventType, ins, "ok")
    ELSE /\ ins = "ok"
         /\ UNCHANGED <<security_events, alerts>>

\* POST /api/auth/mfa/enroll. enroll is how supabase.auth.mfa.enroll ends.
MfaEnroll(user, ipAddress, enroll, ins) ==
    /\ user = Null => enroll = "ok"
    /\ Fault(Failed(enroll) + Failed(ins))
    /\ Audit(user # Null /\ enroll = "ok", user, MFA_ENABLED, ipAddress, ins)
    /\ ret' = [op |-> "mfa/enroll",
               status |-> IF user = Null THEN 401
                          ELSE IF enroll # "ok" THEN 500 ELSE 200]
    /\ UNCHANGED <<beyond, now, login_attempts, req, cleared>>

\* POST /api/auth/mfa/verify. body is whether factorId and code are there,
\* challenge and verify are how the calls of supabase.auth.mfa end.
MfaVerify(user, ipAddress, body, challenge, verify, ins) ==
    LET reached == body /\ user # Null /\ challenge = "ok" /\ verify # "throw"
    IN  /\ (~ body \/ user = Null) => challenge = "ok"
        /\ (~ body \/ user = Null \/ challenge # "ok") => verify = "ok"
        /\ Fault(Failed(challenge) + Failed(ins)
                 + IF verify = "throw" THEN 1 ELSE 0)
        /\ Audit(reached, user,
                 IF verify = "error" THEN LOGIN_FAILURE ELSE LOGIN_SUCCESS,
                 ipAddress, ins)
        /\ ret' = [op |-> "mfa/verify",
                   status |-> IF ~ body THEN 400
                              ELSE IF user = Null THEN 401
                              ELSE IF challenge # "ok" \/ verify = "throw" THEN 500
                              ELSE IF verify = "error" THEN 401 ELSE 200]
        /\ UNCHANGED <<beyond, now, login_attempts, req, cleared>>

\* 30 * 24 * 60 * 60 * 1000 ms, in minutes
GRACE == 43200

\* deleted_at of a row is <<>> while it is NULL and <<t>> once it is set.
\* data_retention_policy has user_id as its primary key: the row of a user,
\* if there is one, and whether it is a request not yet carried out.
HasPolicy(table, user) == \E row \in table : row.user_id = user
PolicyOf(table, user) == CHOOSE row \in table : row.user_id = user
Pending(table, user) ==
    \E row \in table : row.user_id = user /\ row.deleted_at = <<>>

\* The upsert of the route: the columns it names are written, deleted_at of a
\* row that exists is kept.
upsert(table, user, t) ==
    {row \in table : row.user_id # user}
       \cup {[user_id |-> user,
               deletion_requested_at |-> t,
               deletion_scheduled_for |-> t + GRACE,
               deleted_at |-> IF HasPolicy(table, user)
                              THEN PolicyOf(table, user).deleted_at
                              ELSE <<>>]}

\* POST /api/gdpr/delete-account. password is the check of confirmPassword
\* ("none" when the body has none), sel is how the select of the pending
\* request ends and ups how the upsert does. success is the field of the
\* response, "none" in a response without it.
GdprDelete(user, ipAddress, password, sel, ups, ins) ==
    LET asked == user # Null /\ password # "wrong"
        pending == sel = "ok" /\ Pending(data_retention_policy, user)
        reached == asked /\ sel # "throw" /\ ~ pending /\ ups # "throw"
    IN  /\ ~ asked => sel = "ok"
        /\ (~ asked \/ sel = "throw" \/ pending) => ups = "ok"
        /\ Fault(Failed(sel) + Failed(ups) + Failed(ins))
        /\ data_retention_policy' =
              IF reached /\ ups = "ok"
              THEN upsert(data_retention_policy, user, now)
              ELSE data_retention_policy
        /\ Audit(reached, user, DATA_DELETION, ipAddress, ins)
        /\ ret' = [op |-> "gdpr/delete-account", user |-> user,
                   status |-> IF ~ asked THEN 401
                              ELSE IF sel = "throw" \/ ups = "throw" THEN 500
                              ELSE 200,
                   success |-> IF ~ asked \/ sel = "throw" \/ ups = "throw"
                               THEN "none"
                               ELSE IF pending THEN "false" ELSE "true"]
        /\ UNCHANGED <<tokens, posts, limiter, now, login_attempts, req,
                       cleared>>

\* GET /api/gdpr/delete-account, which cancels the request. del is how the
\* delete of the pending request ends.
GdprCancel(user, ipAddress, del, ins) ==
    LET reached == user # Null /\ del # "throw"
    IN  /\ user = Null => del = "ok"
        /\ Fault(Failed(del) + Failed(ins))
        /\ data_retention_policy' =
              IF reached /\ del = "ok"
              THEN {row \in data_retention_policy :
                       ~ (row.user_id = user /\ row.deleted_at = <<>>)}
              ELSE data_retention_policy
        /\ Audit(reached, user, DATA_DELETION, ipAddress, ins)
        /\ ret' = [op |-> "gdpr/cancel", user |-> user,
                   status |-> IF user = Null THEN 401
                              ELSE IF del = "throw" THEN 500 ELSE 200,
                   success |-> IF reached THEN "true" ELSE "none"]
        /\ UNCHANGED <<tokens, posts, limiter, now, login_attempts, req,
                       cleared>>

\* public.anonymize_user_data(target_user_id), as far as it writes
\* data_retention_policy: the request of the user is marked carried out.
anonymize_user_data(target_user_id) ==
    /\ data_retention_policy' =
          {IF row.user_id = target_user_id
           THEN [row EXCEPT !.deleted_at = <<now>>] ELSE row :
              row \in data_retention_policy}
    /\ ret' = [op |-> "anonymize_user_data", user |-> target_user_id]
    /\ UNCHANGED <<tokens, posts, limiter, now, faults, login_attempts,
                   security_events, alerts, req, cleared>>

-----------------------------------------------------------------------------
(* Calls of the checks of suspicious activity *)

\* first and second are how the two selects end; the second is reached only
\* if the first neither rejected nor found enough failed logins.
CallDetectSuspiciousActivity(userId, ipAddress, first, second) ==
    /\ detectSuspiciousActivity(security_events, now, userId, ipAddress, first,
                                "ok") \in {Rejected, Suspicious(MULTIPLE_FAILED)}
          => second = "ok"
    /\ ret' = [op |-> "detectSuspiciousActivity", user_id |-> userId,
               ip |-> ipAddress, first |-> first, second |-> second,
               value |-> detectSuspiciousActivity(security_events, now, userId,
                                                  ipAddress, first, second)]
    /\ UNCHANGED <<beyond, now, faults, login_attempts, security_events, alerts, req,
                   cleared>>

-----------------------------------------------------------------------------
(* Specifications *)

\* One login request at a time.
Next == POST(1)

Spec == Init /\ [][Next]_vars

\* Requests served at the same time: their steps interleave, as the awaits
\* of the handler allow. The collaborators answer every call.
NextRace ==
    \E r \in Reqs :
       \/ \E ip \in IPs : Start(r, ip)
       \/ \E decision \in {"allow", "deny"} :
             RateCheck(r, decision) /\ UNCHANGED tokens
       \/ \E email \in Emails \cup {Null} : Parse(r, email, "ok")
       \/ LockoutCheck(r, "ok", "ok", "ok")
       \/ \E reason \in FailureReasons : ProviderAuth(r, "error", reason)
       \/ ProviderAuth(r, "ok", "none")
       \/ RecordOutcome(r, "ok")
       \/ EventLog(r, "ok")

SpecRace == Init /\ [][NextRace]_vars

\* One request at a time while time passes, between requests and between
\* the steps of a request. The collaborators answer every call.
NextExpiry ==
    \/ \E d \in TickSteps : Tick(d)
    \/ \E ip \in IPs : Start(1, ip)
    \/ RateCheck(1, "allow") /\ UNCHANGED tokens
    \/ \E email \in Emails : Parse(1, email, "ok")
    \/ LockoutCheck(1, "ok", "ok", "ok")
    \/ \E reason \in FailureReasons : ProviderAuth(1, "error", reason)
    \/ ProviderAuth(1, "ok", "none")
    \/ RecordOutcome(1, "ok")
    \/ EventLog(1, "ok")

SpecExpiry == Init /\ [][NextExpiry]_vars

NextLedger ==
    \/ \E d \in TickSteps : Tick(d)
    \/ \E e \in Emails, i \in IPs : CallCheckAccountLockout(e, i)
    \/ \E e \in Emails, i \in IPs, s \in BOOLEAN : CallLogLoginAttempt(e, i, s)

\* Attempts logged and pairs evaluated as time passes.
SpecLedger == Init /\ [][NextLedger]_vars

NextCount ==
    \/ \E d \in TickSteps : Tick(d)
    \/ \E e \in Emails, i \in IPs, s \in BOOLEAN : CallLogLoginAttempt(e, i, s)
    \/ \E e \in Emails, i \in IPs : CallGetFailedAttemptsCount(e, i)

\* Attempts logged and failures counted as time passes.
SpecCount == Init /\ [][NextCount]_vars

NextClear ==
    \/ \E e \in Emails, i \in IPs : CallCheckAccountLockout(e, i)
    \/ \E e \in Emails, i \in IPs, s \in BOOLEAN : CallLogLoginAttempt(e, i, s)
    \/ \E e \in Emails, i \in IPs : CallClearFailedAttempts(e, i)

\* The utilities with clearFailedAttempts among them.
SpecClear == Init /\ [][NextClear]_vars

NextFanOut ==
    \/ \E d \in HourSteps : Elapse(d)
    \/ \E k \in DOMAIN Targets, i \in IPs, s \in BOOLEAN :
          CallLogLoginAttempt(Targets[k], i, s)
    \/ \E i \in IPs : CallCheckSuspiciousIP(i)

\* Origins that try one identity after the other, and the check of an origin.
SpecFanOut == Init /\ [][NextFanOut]_vars

\* q2 is reached unless q1 rejected, and q3 unless q1 or q2 did.
CallCheckSuspiciousLogin(userId, ipAddress, q1, q2, q3) ==
    /\ q1 = "throw" => q2 = "ok"
    /\ (q1 = "throw" \/ q2 = "throw") => q3 = "ok"
    /\ ret' = [op |-> "checkSuspiciousLogin", user_id |-> userId,
               ip |-> ipAddress, q1 |-> q1, q2 |-> q2, q3 |-> q3,
               value |-> checkSuspiciousLogin(security_events, login_attempts,
                             now, userId, ipAddress, q1, q2, q3)]
    /\ UNCHANGED <<beyond, now, faults, login_attempts, security_events, alerts, req,
                   cleared>>

NextRuleA ==
    \/ \E d \in TickSteps : Tick(d)
    \/ \E u \in Users, t \in {LOGIN_FAILURE, LOGIN_SUCCESS}, k \in 1 .. 2 :
          CallLogSecurityEvent(u, t, Origins[k], "ok")
    \/ \E u \in Users : CallDetectSuspiciousActivity(u, Origins[1], "ok", "ok")

\* Events of subjects logged and subjects examined while minutes pass. The
\* store answers every call.
SpecRuleA == Init /\ [][NextRuleA]_vars

NextRuleB ==
    \/ \E d \in HourSteps : Elapse(d)
    \/ \E u \in Users, t \in {LOGIN_FAILURE, LOGIN_SUCCESS},
          k \in DOMAIN Origins : CallLogSecurityEvent(u, t, Origins[k], "ok")
    \/ \E u \in Users : CallDetectSuspiciousActivity(u, Origins[1], "ok", "ok")
    \/ \E u \in Users, k \in 1 .. 2 :
          CallCheckSuspiciousLogin(u, Origins[k], "ok", "ok", "ok")

\* Events of subjects logged from several origins and subjects examined
\* while about an hour passes. The store answers every call.
SpecRuleB == Init /\ [][NextRuleB]_vars

NextHeuristic ==
    \/ \E d \in HourSteps : Elapse(d)
    \/ \E k \in DOMAIN Origins :
          CallLogSecurityEvent("user-alice", LOGIN_FAILURE, Origins[k], "ok")
    \/ \E k \in 1 .. 2 : CallLogLoginAttempt(Targets[k], Origins[1], FALSE)
    \/ \E first \in StoreOutcomes, second \in StoreOutcomes :
          CallDetectSuspiciousActivity("user-alice", Origins[1], first, second)
    \/ CallCheckSuspiciousIP(Origins[1])
    \/ \E q1 \in StoreOutcomes, q2 \in StoreOutcomes, q3 \in StoreOutcomes :
          CallCheckSuspiciousLogin("user-alice", Origins[1], q1, q2, q3)

\* The three checks of suspicious activity over both tables, with a store
\* that may fail any select.
SpecHeuristic == Init /\ [][NextHeuristic]_vars

NextAudit ==
    \/ Start(1, "1.2.3.4") /\ Size(security_events) < MaxAudit
    \/ RateCheck(1, "allow") /\ UNCHANGED tokens
    \/ Parse(1, "alice@example.com", "ok")
    \/ \E ins \in StoreOutcomes : LockoutCheck(1, "ok", ins, "ok")
    \/ \E reason \in FailureReasons : ProviderAuth(1, "error", reason)
    \/ ProviderAuth(1, "ok", "none")
    \/ RecordOutcome(1, "ok")
    \/ \E ins \in StoreOutcomes : EventLog(1, ins)
    \/ \E u \in {Null, "user-alice"}, enroll \in StoreOutcomes,
          ins \in StoreOutcomes : MfaEnroll(u, "1.2.3.4", enroll, ins)
    \/ \E u \in {Null, "user-alice"}, body \in BOOLEAN,
          challenge \in StoreOutcomes, verify \in StoreOutcomes,
          ins \in StoreOutcomes :
          MfaVerify(u, "1.2.3.4", body, challenge, verify, ins)
    \/ \E u \in {Null, "user-alice"}, password \in {"none", "ok", "wrong"},
          sel \in StoreOutcomes, ups \in StoreOutcomes, ins \in StoreOutcomes :
          GdprDelete(u, "1.2.3.4", password, sel, ups, ins)
    \/ \E u \in {Null, "user-alice"}, del \in StoreOutcomes,
          ins \in StoreOutcomes : GdprCancel(u, "1.2.3.4", del, ins)
    \/ CallDetectSuspiciousActivity("user-alice", "1.2.3.4", "ok", "ok")
    \/ CallCheckSuspiciousLogin("user-alice", "1.2.3.4", "ok", "ok", "ok")

\* Every handler and check that touches security_events: the login of one
\* identity from one origin, MFA enrolment and verification, the deletion
\* request and its cancellation, and the checks of suspicious activity, while
\* the table is small.
SpecAudit == Init /\ [][NextAudit]_vars

NextAlert ==
    \E u \in {Null, "user-alice"}, t \in SecurityEventType, i \in IPs,
       ins \in StoreOutcomes :
       CallLogSecurityEvent(u, t, i, ins)

\* Events of every type logged, for a subject or for none.
SpecAlert == Init /\ [][NextAlert]_vars

-----------------------------------------------------------------------------
(* middleware.ts, lib/cloudflare.ts and the rate limiters of lib/arcjet *)

\* A pathname is the sequence of its characters, so that startsWith and
\* includes are computed as JavaScript computes them.
StartsWith(s, p) == Len(s) >= Len(p) /\ SubSeq(s, 1, Len(p)) = p
Includes(s, w) ==
    \E k \in 1 .. (Len(s) - Len(w) + 1) : SubSeq(s, k, k + Len(w) - 1) = w

API_AUTH == <<"/", "a", "p", "i", "/", "a", "u", "t", "h">>
LOGIN == <<"l", "o", "g", "i", "n">>
SIGNUP == <<"s", "i", "g", "n", "u", "p">>
API == <<"/", "a", "p", "i", "/">>
API_EMAIL_SEND ==
    <<"/", "a", "p", "i", "/", "e", "m", "a", "i", "l", "/", "s", "e", "n", "d">>
API_HEALTH == <<"/", "a", "p", "i", "/", "h", "e", "a", "l", "t", "h">>
SECURE_LOGIN == API_AUTH \o <<"/", "s", "e", "c", "u", "r", "e", "-">> \o LOGIN
GDPR_DELETE ==
    API \o <<"g", "d", "p", "r", "/", "d", "e", "l", "e", "t", "e", "-",
             "a", "c", "c", "o", "u", "n", "t">>
SIGNUP_PAGE == <<"/">> \o SIGNUP
DASHBOARD == <<"/", "d", "a", "s", "h", "b", "o", "a", "r", "d">>

\* The pathnames requested, all of them matched by config.matcher.
Pathnames ==
    {SECURE_LOGIN, API_EMAIL_SEND, API_HEALTH, GDPR_DELETE, SIGNUP_PAGE,
     DASHBOARD}

\* config/cloudflare: the defaults of the two thresholds and the paths that
\* skip the checks ('/_next' and '/favicon.ico' are not matched by the
\* middleware).
CF_THREAT_SCORE_BLOCK == 30
CF_THREAT_SCORE_CHALLENGE == 15
CF_BYPASS_PATHS == {API_HEALTH}

\* The threat scores Cloudflare reports, around the two thresholds.
Scores ==
    {CF_THREAT_SCORE_CHALLENGE - 1, CF_THREAT_SCORE_CHALLENGE,
     CF_THREAT_SCORE_BLOCK - 1, CF_THREAT_SCORE_BLOCK}

\* CLOUDFLARE_BLOCKED_COUNTRIES as a deployment sets it (the default is
\* empty), and the cf-ipcountry headers received.
BLOCKED_COUNTRIES == {"KP"}
Countries == {Null, "DE", "kp"}
toUpperCase(c) == IF c = "kp" THEN "KP" ELSE c

\* getCloudflareInfo: what the CF-* headers say of a request.
CloudflareInfo ==
    [isProxied : BOOLEAN, country : Countries, threatScore : Scores]

\* NextResponse.json(body, {status}), NextResponse.next() and null.
Json(error, status) ==
    [null |-> FALSE, status |-> status, error |-> error, next |-> FALSE,
     elevated |-> FALSE]
PassOn(elevated) ==
    [null |-> FALSE, status |-> 200, error |-> Null, next |-> TRUE,
     elevated |-> elevated]
NoResponse ==
    [null |-> TRUE, status |-> 0, error |-> Null, next |-> FALSE,
     elevated |-> FALSE]

DIRECT_ACCESS == "Direct access not allowed. Use the proxied domain."
REGION_DENIED == "Access denied from your region."
POLICY_BLOCKED == "Request blocked due to security policy."
AUTH_LIMITED == "Too many authentication attempts. Please try again later."
API_LIMITED == "Rate limit exceeded. Please try again later."
UNAUTHORIZED == "Unauthorized"

\* cloudflareGuard(request), under CLOUDFLARE_ENABLED = enabled and
\* BLOCKED_COUNTRIES = blocked.
cloudflareGuard(enabled, blocked, pathname, cf) ==
    IF ~enabled THEN NoResponse
    ELSE IF \E p \in CF_BYPASS_PATHS : StartsWith(pathname, p) THEN NoResponse
    ELSE IF ~cf.isProxied THEN Json(DIRECT_ACCESS, 403)
    ELSE IF cf.country # Null /\ toUpperCase(cf.country) \in blocked
    THEN Json(REGION_DENIED, 403)
    ELSE IF cf.threatScore >= CF_THREAT_SCORE_BLOCK THEN Json(POLICY_BLOCKED, 403)
    ELSE IF cf.threatScore >= CF_THREAT_SCORE_CHALLENGE THEN PassOn(TRUE)
    ELSE NoResponse

\* The tokenBucket rule of ajAuth on a bucket of `have` tokens.
tokenBucket(have) ==
    IF have >= REQUESTED
    THEN [conclusion |-> "allow", remaining |-> have - REQUESTED]
    ELSE [conclusion |-> "deny", remaining |-> have]

\* The x-api-key headers sent, and process.env.INTERNAL_API_KEY.
INTERNAL_API_KEY == "internal-key"
ApiKeys == {Null, INTERNAL_API_KEY, "guessed-key"}

\* middleware(request): the response, whether it is the guard's, and the
\* decisions of the protect calls made ("none": not called). auth and api
\* are what ajAuth.protect and aj.protect answer when called.
AuthPath(pathname) ==
    \/ StartsWith(pathname, API_AUTH)
    \/ Includes(pathname, LOGIN)
    \/ Includes(pathname, SIGNUP)

middleware(pathname, guard, auth, api, apiKey) ==
    LET authPath == AuthPath(pathname)
        apiPath == StartsWith(pathname, API)
        emailPath == StartsWith(pathname, API_EMAIL_SEND)
    IN  IF ~guard.null
        THEN [response |-> guard, guarded |-> TRUE, auth |-> "none",
              api |-> "none"]
        ELSE IF authPath /\ auth = "deny"
        THEN [response |-> Json(AUTH_LIMITED, 429), guarded |-> FALSE,
              auth |-> "deny", api |-> "none"]
        ELSE IF apiPath /\ api = "deny"
        THEN [response |-> Json(API_LIMITED, 429), guarded |-> FALSE,
              auth |-> IF authPath THEN "allow" ELSE "none", api |-> "deny"]
        ELSE [response |-> IF emailPath /\ apiKey # INTERNAL_API_KEY
                           THEN Json(UNAUTHORIZED, 401)
                           ELSE PassOn(FALSE),
              guarded |-> FALSE,
              auth |-> IF authPath THEN "allow" ELSE "none",
              api |-> IF apiPath THEN "allow" ELSE "none"]

\* A request of client ipAddress reaches the middleware. bot is what the
\* shield and detectBot rules of ajAuth conclude, api what aj.protect decides.
\* A request for the login route that the middleware passes on is forwarded
\* to the route handler.
Middleware(r, ipAddress, pathname, enabled, blocked, cf, bot, api, apiKey) ==
    LET guard == cloudflareGuard(enabled, blocked, pathname, cf)
        bucket == tokenBucket(tokens[ipAddress])
        auth == IF bot = "deny" THEN "deny" ELSE bucket.conclusion
        m == middleware(pathname, guard, auth, api, apiKey)
        login == pathname = SECURE_LOGIN
    IN  /\ req[r].pc \in {"idle", "done"}
        /\ login => posts[ipAddress] < MaxPosts
        /\ tokens' = IF m.auth = "none" THEN tokens
                      ELSE [tokens EXCEPT ![ipAddress] = bucket.remaining]
        /\ posts' = IF login THEN [posts EXCEPT ![ipAddress] = @ + 1] ELSE posts
        /\ req' = IF login /\ m.response.next
                   THEN [req EXCEPT ![r] = [IdleReq EXCEPT !.pc = "FORWARDED",
                                                           !.ip = ipAddress]]
                   ELSE req
        /\ ret' = [op |-> "middleware", ip |-> ipAddress, pathname |-> pathname,
                   guarded |-> m.guarded, auth |-> m.auth, api |-> m.api,
                   key |-> (apiKey = INTERNAL_API_KEY), response |-> m.response]
        /\ UNCHANGED <<data_retention_policy, limiter, now, faults,
                       login_attempts,
                       security_events, alerts, cleared>>

\* The route handler takes the forwarded request.
Forwarded(r) == req[r].pc = "FORWARDED" /\ Start(r, req[r].ip)

\* 1. ajAuth.protect(req) in the route: the same rule on the same bucket.
RouteProtect(r) ==
    LET bucket == tokenBucket(tokens[req[r].ip])
    IN  /\ req[r].pc = "RATE_CHECK"
        /\ RateCheck(r, bucket.conclusion)
        /\ tokens' = [tokens EXCEPT ![req[r].ip] = bucket.remaining]

\* The interval of the rule passes: refillRate tokens are added to every
\* bucket, up to its capacity.
Refill ==
    /\ now + INTERVAL <= MaxTime
    /\ now' = now + INTERVAL
    /\ tokens' = [i \in Clients |->
                     IF tokens[i] + REFILL_RATE <= CAPACITY
                     THEN tokens[i] + REFILL_RATE ELSE CAPACITY]
    /\ posts' = [i \in Clients |-> IF tokens'[i] = CAPACITY THEN 0 ELSE posts[i]]
    /\ UNCHANGED <<data_retention_policy, limiter, faults, login_attempts,
                   security_events, alerts, req, ret, cleared>>

Clean == [isProxied |-> TRUE, country |-> "DE", threatScore |-> 0]

\* Clients that post to the login route through a clean edge, with nothing
\* but the token bucket against them; the body they send lacks a field.
NextLimit ==
    \/ \E i \in Clients, enabled \in BOOLEAN :
          Middleware(1, i, SECURE_LOGIN, enabled, {}, Clean, "allow", "allow", Null)
    \/ Forwarded(1)
    \/ RouteProtect(1)
    \/ Parse(1, Null, "ok")
    \/ Refill

SpecLimit == Init /\ [][NextLimit]_vars

\* Requests of one client for every matched pathname, with every answer of
\* the edge and of the rate limiters (the CF-* headers vary where
\* CLOUDFLARE_ENABLED has them read).
NextMiddleware ==
    \/ \E p \in Pathnames, enabled \in BOOLEAN,
          cf \in CloudflareInfo \cup {Clean} :
          \E bot \in IF AuthPath(p) THEN {"allow", "deny"} ELSE {"allow"},
             api \in IF StartsWith(p, API) THEN {"allow", "deny"} ELSE {"allow"},
             k \in IF StartsWith(p, API_EMAIL_SEND) THEN ApiKeys ELSE {Null} :
             /\ enabled \/ cf = Clean
             /\ Middleware(1, "1.2.3.4", p, enabled, BLOCKED_COUNTRIES, cf,
                           bot, api, k)
    \/ Forwarded(1)
    \/ RouteProtect(1)
    \/ Parse(1, Null, "ok")

SpecMiddleware == Init /\ [][NextMiddleware]_vars

\* Login requests one at a time, and the subjects of the accounts checked
\* for suspicious activity in between.
NextVisible ==
    \/ \E d \in TickSteps : Tick(d)
    \/ Start(1, "1.2.3.4")
    \/ RateCheck(1, "allow") /\ UNCHANGED tokens
    \/ \E email \in Emails : Parse(1, email, "ok")
    \/ LockoutCheck(1, "ok", "ok", "ok")
    \/ \E reason \in FailureReasons : ProviderAuth(1, "error", reason)
    \/ ProviderAuth(1, "ok", "none")
    \/ RecordOutcome(1, "ok")
    \/ EventLog(1, "ok")
    \/ \E u \in Users : CallDetectSuspiciousActivity(u, "1.2.3.4", "ok", "ok")

SpecVisible == Init /\ [][NextVisible]_vars

\* One login request at a time, with collaborators that keep failing now
\* and then; every call the handler awaits returns or throws, so a request
\* that is in takes its next step.
NextLive ==
    \/ /\ Start(1, "1.2.3.4")
       /\ Size(security_events) < MaxAudit
       /\ Size(alerts) < MaxAudit
    \/ Handle(1)
    \/ Recover

SpecLive == Init /\ [][NextLive]_vars /\ WF_vars(Handle(1))

\* The limits the history is asked with.
Limits == 0 .. MaxLimit

NextHistory ==
    \/ \E d \in TickSteps : Tick(d)
    \/ \E e \in Emails, s \in BOOLEAN : CallLogLoginAttempt(e, "1.2.3.4", s)
    \/ \E e \in Emails, n \in Limits : CallGetLoginHistory(e, n)

\* Attempts logged and the history of an identity read as time passes.
SpecHistory == Init /\ [][NextHistory]_vars

-----------------------------------------------------------------------------
\* The in-memory rate limiter (utils/security).

\* The clock of the limiter's runs, the largest maxRequests and the longest
\* windowMs a caller passes.
MaxClock == 5
MaxRequests == 2
MaxWindow == 2

\* maxRequests >= 0 and windowMs > 0
Quotas == [maxRequests : 0 .. MaxRequests, windowMs : 1 .. MaxWindow]

\* A denied call that still counts and pushes the window on.
checkRateLimit_sliding(map, t, identifier, maxRequests, windowMs) ==
    LET record == map[identifier] IN
    IF ~record.present \/ t > record.resetAt
    THEN [map |-> [map EXCEPT ![identifier] =
                      [present |-> TRUE, count |-> 1, resetAt |-> t + windowMs]],
          value |-> [allowed |-> TRUE, remaining |-> maxRequests - 1]]
    ELSE IF record.count >= maxRequests
    THEN [map |-> [map EXCEPT ![identifier] =
                      [present |-> TRUE, count |-> record.count,
                       resetAt |-> t + windowMs]],
          value |-> [allowed |-> FALSE, remaining |-> 0]]
    ELSE [map |-> [map EXCEPT ![identifier].count = @ + 1],
          value |-> [allowed |-> TRUE,
                     remaining |-> maxRequests - (record.count + 1)]]

\* checkRateLimit: the map after the call and the value returned.
checkRateLimit(map, t, identifier, maxRequests, windowMs) ==
    LET record == map[identifier] IN
    IF ~record.present \/ t > record.resetAt
    THEN [map |-> [map EXCEPT ![identifier] =
                      [present |-> TRUE, count |-> 1, resetAt |-> t + windowMs]],
          value |-> [allowed |-> TRUE, remaining |-> maxRequests - 1]]
    ELSE IF record.count >= maxRequests
    THEN [map |-> map, value |-> [allowed |-> FALSE, remaining |-> 0]]
    ELSE [map |-> [map EXCEPT ![identifier].count = @ + 1],
          value |-> [allowed |-> TRUE,
                     remaining |-> maxRequests - (record.count + 1)]]

\* A cleanup that also deletes the entries whose resetAt is this instant.
cleanup_at_reset(map, t) ==
    [k \in DOMAIN map |->
        IF map[k].present /\ t >= map[k].resetAt THEN Absent ELSE map[k]]

\* The body of the setInterval callback: expired entries are deleted.
cleanup(map, t) ==
    [k \in DOMAIN map |->
        IF map[k].present /\ t > map[k].resetAt THEN Absent ELSE map[k]]

\* A call of checkRateLimit at the present time, and the same call on the
\* map no cleanup has touched.
CallCheckRateLimit(identifier) ==
    LET call == checkRateLimit(rateLimitMap, now, identifier,
                               quota.maxRequests, quota.windowMs)
        apart == checkRateLimit(unswept, now, identifier,
                                quota.maxRequests, quota.windowMs)
        opened == \/ ~rateLimitMap[identifier].present
                  \/ call.map[identifier].resetAt
                        # rateLimitMap[identifier].resetAt
    IN /\ rateLimitMap' = call.map
       /\ unswept' = apart.map
       /\ grants' = [grants EXCEPT ![identifier] =
                        IF ~call.value.allowed THEN @
                        ELSE IF opened THEN [start |-> now, n |-> 1]
                        ELSE IF now <= @.start + quota.windowMs
                        THEN [@ EXCEPT !.n = @ + 1]
                        ELSE @]
       /\ ret' = [op |-> "checkRateLimit", identifier |-> identifier,
                  value |-> call.value, unswept |-> apart.value,
                  swept |-> /\ ~rateLimitMap[identifier].present
                            /\ unswept[identifier].present]
       /\ UNCHANGED <<data_retention_policy, tokens, posts, quota, now, faults,
                      login_attempts, security_events, alerts, req, cleared>>

\* The setInterval callback fires.
Cleanup ==
    /\ rateLimitMap' = cleanup(rateLimitMap, now)
    /\ ret' = NoRet
    /\ UNCHANGED <<data_retention_policy, tokens, posts, unswept, grants,
                   quota, now, faults, login_attempts, security_events,
                   alerts, req, cleared>>

InitLimiter ==
    /\ Origin
    /\ quota \in Quotas

NextLimiter ==
    \/ Tick(1) /\ now < MaxClock
    \/ \E k \in Identifiers : CallCheckRateLimit(k)
    \/ Cleanup

\* Callers of one limit and window, the clock and the cleanup timer.
SpecLimiter == InitLimiter /\ [][NextLimiter]_vars

-----------------------------------------------------------------------------
\* The deletion requests of app/api/gdpr/delete-account.

NextRetention ==
    \/ Tick(1) /\ now < MaxClock
    \/ \E u \in Users \cup {Null}, password \in {"none", "ok", "wrong"},
          sel \in StoreOutcomes, ups \in StoreOutcomes :
          GdprDelete(u, "1.2.3.4", password, sel, ups, "ok")
    \/ \E u \in Users \cup {Null}, del \in StoreOutcomes :
          GdprCancel(u, "1.2.3.4", del, "ok")
    \/ \E u \in Users : anonymize_user_data(u)

\* Deletions requested, cancelled and carried out as time passes, with the
\* store answering, answering with an error or not answering.
SpecRetention == Init /\ [][NextRetention]_vars

-----------------------------------------------------------------------------
(* Properties *)

\* The failed rows of the table for (email, ipAddress) whose age is one of
\* ages.
FailedAged(email, ipAddress, ages) ==
    Size(Filter(login_attempts,
                LAMBDA r : /\ r.email = email
                           /\ r.ip_address = ipAddress
                           /\ r.successful = FALSE
                           /\ (now - r.attempted_at) \in ages))

\* Ages strictly inside the window, ages up to its boundary, all ages.
Inside == 0 .. (WINDOW - 1)
UpToBoundary == 0 .. WINDOW
AnyAge == 0 .. MaxTime + WINDOW

\* The last utility call was checkAccountLockout and the store answered it.
Evaluated ==
    /\ ret.op = "checkAccountLockout"
    /\ ret.ok

\* C1: once a pair has exactly 5 failed attempts inside the trailing
\* 15-minute window, the lockout function, the handler's check and the next
\* evaluation by checkAccountLockout all say that the pair is locked.
C1_FiveFailuresLock ==
    /\ \A e \in Emails, i \in IPs :
         FailedAged(e, i, Inside) = MAX_FAILURES
            => /\ is_account_locked(login_attempts, now, e, i)
               /\ route_checkAccountLockout(login_attempts, now, e, i, "ok").locked
    /\ Evaluated /\ FailedAged(ret.email, ret.ip, Inside) = MAX_FAILURES
         => ret.value.locked

C1_Witness ==
    /\ Evaluated
    /\ FailedAged(ret.email, ret.ip, Inside) = MAX_FAILURES
    /\ ret.value.locked

\* C5: an evaluation counts the failed rows of the pair that lie in the
\* trailing 15 minutes and no others: the verdict is "locked" exactly when
\* 5 or more lie strictly inside the window, otherwise the remaining
\* attempts are 5 less the rows up to the window's boundary, and a pair
\* whose failures are all older is unlocked with 5 attempts remaining.
C5_OldFailuresDoNotCount ==
    Evaluated =>
      /\ ret.value.locked = (FailedAged(ret.email, ret.ip, Inside) >= MAX_FAILURES)
      /\ ~ ret.value.locked =>
            ret.value.remainingAttempts =
               {Max(0, MAX_FAILURES - FailedAged(ret.email, ret.ip, UpToBoundary))}
      /\ FailedAged(ret.email, ret.ip, UpToBoundary) = 0 =>
            ret.value = [locked |-> FALSE, remainingAttempts |-> {MAX_FAILURES}]

C5_Witness ==
    /\ Evaluated
    /\ FailedAged(ret.email, ret.ip, AnyAge) >= MAX_FAILURES
    /\ FailedAged(ret.email, ret.ip, UpToBoundary) = 0
    /\ ret.value = [locked |-> FALSE, remainingAttempts |-> {MAX_FAILURES}]

\* C6: getFailedAttemptsCount(email, ip, 15) returns the number of failed
\* rows of the pair whose attempted_at lies in the last 15 minutes.
C6_CountIsNumberOfFailures ==
    ret.op = "getFailedAttemptsCount" /\ ret.ok
       => ret.value = FailedAged(ret.email, ret.ip, UpToBoundary)

\* C8: an evaluation writes nothing, and a second evaluation of the same
\* pair at the same time over the same table returns what the first did.
C8_EvaluationIdempotent ==
    [][ret'.op = "checkAccountLockout" =>
          /\ login_attempts' = login_attempts
          /\ now' = now
          /\ (/\ Evaluated
              /\ ret'.ok
              /\ ret'.email = ret.email
              /\ ret'.ip = ret.ip) => ret'.value = ret.value]_vars

C8_Witness ==
    /\ Evaluated
    /\ FailedAged(ret.email, ret.ip, Inside) = 2
    /\ ret.value = [locked |-> FALSE, remainingAttempts |-> {MAX_FAILURES - 2}]

\* C9: a failed attempt written by logLoginAttempt is seen by the next
\* getFailedAttemptsCount at the same time: the count after the write is
\* one more than the count before it.
C9_WriteVisibleToCount ==
    [][\A e \in Emails, i \in IPs :
          login_attempts' = Insert(login_attempts, LoginAttempt(e, i, FALSE, now))
             => getFailedAttemptsCount(login_attempts', now', e, i, WINDOW, "ok")
                = getFailedAttemptsCount(login_attempts, now, e, i, WINDOW, "ok") + 1]_vars

\* C2: the lockout is per (email, ip) pair. A request whose lockout check
\* the store answered is rejected as locked exactly when its own pair has 5
\* or more failed attempts in the window, whatever was recorded for the same
\* email from another address or for another email from the same address.
C2_LockoutPerPair ==
    \A r \in Reqs :
       /\ req[r].rpc = "ok"
       /\ \/ req[r].pc = "PROVIDER_AUTH"
          \/ req[r].pc = "done" /\ req[r].lockout = "locked"
       => (req[r].lockout = "locked"
             <=> FailedAged(req[r].email, req[r].ip, Inside) >= MAX_FAILURES)

C2_Witness ==
    \E r \in Reqs, other \in IPs :
       /\ req[r].pc = "PROVIDER_AUTH"
       /\ req[r].rpc = "ok"
       /\ req[r].lockout = "open"
       /\ other # req[r].ip
       /\ FailedAged(req[r].email, other, Inside) >= MAX_FAILURES
       /\ FailedAged(req[r].email, req[r].ip, Inside) < MAX_FAILURES

\* C3: when the handler has answered a login with 200 and no store call
\* failed, the pair has no failed attempts left in the table and a
\* login_success event carrying the user's id has been recorded.
C3_SuccessClearsFailures ==
    \A r \in Reqs :
       req[r].pc = "done" /\ req[r].status = 200 /\ faults = 0
       => /\ FailedAged(req[r].email, req[r].ip, AnyAge) = 0
          /\ \E ev \in BagToSet(security_events) :
                /\ ev.event_type = LOGIN_SUCCESS
                /\ ev.user_id = UserId(req[r].email)

\* C4: after clearFailedAttempts(email, ip) the count starts again at 0:
\* while 4 or fewer failed attempts have been logged for the pair since,
\* an evaluation finds it unlocked, with 5 attempts less those remaining.
C4_ClearRestartsCount ==
    /\ Evaluated
    /\ cleared.email = ret.email
    /\ cleared.ip = ret.ip
    /\ cleared.failures < MAX_FAILURES
    => ret.value = [locked |-> FALSE,
                    remainingAttempts |-> {MAX_FAILURES - cleared.failures}]

C4_Witness ==
    /\ Evaluated
    /\ cleared.email = ret.email
    /\ cleared.ip = ret.ip
    /\ cleared.had >= MAX_FAILURES
    /\ cleared.failures = MAX_FAILURES - 1
    /\ ~ ret.value.locked

\* C7: a store that fails while the attempt is recorded does not change the
\* response: a request the provider accepted ends with 200 and one it
\* refused with 401.
C7_RecordingFailureSwallowed ==
    \A r \in Reqs :
       req[r].pc = "done" /\ req[r].verdict # "none"
       => req[r].status = IF req[r].verdict = "ok" THEN 200 ELSE 401

\* The place of each step in the handler.
Rank ==
    [idle |-> 0, RATE_CHECK |-> 1, PARSE |-> 2, LOCKOUT_CHECK |-> 3,
     PROVIDER_AUTH |-> 4, RECORD_OUTCOME |-> 5, EVENT_LOG |-> 6, CATCH |-> 7,
     done |-> 8]

\* C10: a request goes through rate check, lockout check, provider
\* authentication, outcome recording and event logging in that order, and
\* the provider is called only for a request that the rate limiter allowed
\* and the lockout check found open.
C10_StepsInOrder ==
    [][\A r \in Reqs :
          /\ \/ req'[r] = req[r]
             \/ req[r].pc = "done" /\ req'[r].pc = "RATE_CHECK"
             \/ Rank[req'[r].pc] > Rank[req[r].pc]
          /\ req'[r].signIn > 0
               => req'[r].rate = "allow" /\ req'[r].lockout = "open"
          /\ req'[r].pc = "done" /\ req'[r].status \in {200, 401}
               => req'[r].signIn = 1]_vars

C10_Witness ==
    \E r \in Reqs :
       /\ req[r].pc = "done"
       /\ req[r].status = 429
       /\ req[r].rate = "allow"
       /\ req[r].rpc = "ok"
       /\ req[r].lockout = "locked"
       /\ req[r].signIn = 0

\* C11: a request the rate limiter denies ends there with status 429: it
\* wrote no row to login_attempts, never called the provider, and the step
\* that denied it left the table as it was.
C11_RateLimitedWritesNothing ==
    [][\A r \in Reqs :
          req'[r].rate = "deny"
             => /\ req'[r].pc = "done"
                /\ req'[r].status = 429
                /\ req'[r].body = RATE_LIMITED
                /\ req'[r].rows = <<>>
                /\ req'[r].signIn = 0
                /\ req[r].pc = "RATE_CHECK" => login_attempts' = login_attempts]_vars

C11_Witness ==
    \E r \in Reqs :
       /\ req[r].pc = "done"
       /\ req[r].rate = "deny"
       /\ req[r].status = 429
       /\ Size(login_attempts) > 0

\* C12: a request the lockout check finds locked ends there with status
\* 429. It made one logSecurityEvent call, for account_locked with user id
\* null; the row is in security_events if the store took it; and it wrote
\* no row to login_attempts, which the rejecting step leaves as it was.
C12_LockedRequestLogsOneEvent ==
    [][\A r \in Reqs :
          req'[r].lockout = "locked"
             => /\ req'[r].pc = "done"
                /\ req'[r].status = 429
                /\ req'[r].rows = <<>>
                /\ req'[r].signIn = 0
                /\ req'[r].events = <<[event_type |-> ACCOUNT_LOCKED,
                                       user_id |-> Null,
                                       stored |-> req'[r].events[1].stored]>>
                /\ req[r].pc = "LOCKOUT_CHECK"
                     => /\ login_attempts' = login_attempts
                        /\ security_events' =
                             IF req'[r].events[1].stored
                             THEN Insert(security_events,
                                         SecurityEvent(Null, ACCOUNT_LOCKED,
                                                       req[r].ip, now))
                             ELSE security_events]_vars

C12_Witness ==
    \E r \in Reqs :
       /\ req[r].pc = "done"
       /\ req[r].lockout = "locked"
       /\ req[r].rpc = "ok"
       /\ req[r].status = 429
       /\ req[r].events[1].stored
       /\ SecurityEvent(Null, ACCOUNT_LOCKED, req[r].ip, now)
             \in BagToSet(security_events)

\* C13 as stated: every request that called the provider has made one
\* logLoginAttempt call, with successful equal to the provider's verdict,
\* when its response is sent.
C13_EveryProviderCallRecorded ==
    \A r \in Reqs :
       req[r].pc = "done" /\ req[r].signIn > 0
       => /\ Len(req[r].rows) = 1
          /\ req[r].rows[1].successful = (req[r].verdict = "ok")

\* C13 amended: every request the provider answered with a verdict makes one
\* logLoginAttempt call before its response, with successful equal to the
\* verdict, and the row is added to login_attempts if the store takes it; a
\* request whose provider call threw, or that never called the provider,
\* makes none.
C13_VerdictRecordedOnce ==
    [][\A r \in Reqs :
          /\ req'[r].verdict # "none" /\ req'[r].pc \in {"EVENT_LOG", "CATCH", "done"}
               => /\ Len(req'[r].rows) = 1
                  /\ req'[r].rows[1].successful = (req'[r].verdict = "ok")
          /\ req'[r].verdict = "none" => req'[r].rows = <<>>
          /\ req[r].pc = "RECORD_OUTCOME" /\ req'[r].pc # "RECORD_OUTCOME"
               => login_attempts' =
                     IF req'[r].rows[1].stored
                     THEN Insert(login_attempts,
                                 LoginAttempt(req[r].email, req[r].ip,
                                              req[r].verdict = "ok", now))
                     ELSE login_attempts]_vars

C13_Witness ==
    \E r \in Reqs :
       /\ req[r].pc = "done"
       /\ req[r].status = 200
       /\ req[r].rows = <<[successful |-> TRUE, stored |-> TRUE]>>
       /\ LoginAttempt(req[r].email, req[r].ip, TRUE, now)
             \in BagToSet(login_attempts)

\* The types of the events a request logged.
EventTypes(q) == {q.events[i].event_type : i \in DOMAIN q.events}

\* C14: a request that got past the recording of its outcome makes one
\* logSecurityEvent call before its response: login_success with the user's
\* id and a 200 when the provider accepted, login_failure with user id null
\* and a 401 when it refused; the row is in security_events if the store
\* took it; no request logs both types, and a 200 is sent only after the
\* login_success call.
C14_OneEventPerVerdict ==
    \A r \in Reqs :
       /\ req[r].pc = "EVENT_LOG" => req[r].events = <<>>
       /\ req[r].pc = "done" /\ req[r].status \in {200, 401}
            => /\ req[r].status = IF req[r].verdict = "ok" THEN 200 ELSE 401
               /\ Len(req[r].events) = 1
               /\ req[r].events[1].event_type =
                     IF req[r].verdict = "ok" THEN LOGIN_SUCCESS ELSE LOGIN_FAILURE
               /\ req[r].events[1].user_id =
                     IF req[r].verdict = "ok" THEN UserId(req[r].email) ELSE Null
               /\ req[r].events[1].stored
                     => SecurityEvent(req[r].events[1].user_id,
                                      req[r].events[1].event_type, req[r].ip, now)
                           \in BagToSet(security_events)
       /\ ~ ({LOGIN_SUCCESS, LOGIN_FAILURE} \subseteq EventTypes(req[r]))
       /\ req[r].status = 200 => LOGIN_SUCCESS \in EventTypes(req[r])

C14_Witness ==
    \E r \in Reqs :
       /\ req[r].pc = "done"
       /\ req[r].status = 401
       /\ req[r].events = <<[event_type |-> LOGIN_FAILURE, user_id |-> Null,
                             stored |-> TRUE]>>
       /\ SecurityEvent(Null, LOGIN_FAILURE, req[r].ip, now)
             \in BagToSet(security_events)

\* C15: a request one of whose steps threw goes to the catch and ends with
\* status 500 and the generic message, after one logSecurityEvent call for
\* login_failure with user id null, whose row is in security_events if the
\* store took it; and only such a request ends with 500.
C15_ThrowLogsFailureAndEnds500 ==
    [][\A r \in Reqs :
          /\ req'[r].threw => req'[r].pc \in {"CATCH", "done"}
          /\ req'[r].pc = "CATCH" => req'[r].threw
          /\ req'[r].status = 500 => req'[r].threw
          /\ req'[r].threw /\ req'[r].pc = "done"
               => /\ req'[r].status = 500
                  /\ req'[r].body = INTERNAL_ERROR
                  /\ Len(req'[r].events) = 1
                  /\ req'[r].events[1].event_type = LOGIN_FAILURE
                  /\ req'[r].events[1].user_id = Null
          /\ req[r].pc = "CATCH" /\ req'[r].pc = "done"
               => security_events' =
                     IF req'[r].events[1].stored
                     THEN Insert(security_events,
                                 SecurityEvent(Null, LOGIN_FAILURE, req[r].ip, now))
                     ELSE security_events]_vars

C15_Witness ==
    \E r \in Reqs :
       /\ req[r].pc = "done"
       /\ req[r].signIn = 1
       /\ req[r].verdict = "none"
       /\ req[r].threw
       /\ req[r].status = 500
       /\ SecurityEvent(Null, LOGIN_FAILURE, req[r].ip, now)
             \in BagToSet(security_events)

\* C16 as stated: every finished request has one of the statuses 200, 401,
\* 429 and 500.
C16_FiveOutcomes ==
    \A r \in Reqs :
       req[r].pc = "done" => req[r].status \in {200, 401, 429, 500}

\* The response of a request, by what happened to it.
Response(q) ==
    IF q.threw THEN [status |-> 500, body |-> INTERNAL_ERROR]
    ELSE IF q.rate = "deny" THEN [status |-> 429, body |-> RATE_LIMITED]
    ELSE IF q.email = Null THEN [status |-> 400, body |-> FIELDS_REQUIRED]
    ELSE IF q.lockout = "locked" THEN [status |-> 429, body |-> LOCKED_MESSAGE]
    ELSE IF q.verdict = "ok" THEN [status |-> 200, body |-> SUCCESS]
    ELSE [status |-> 401, body |-> INVALID_CREDENTIALS]

\* C16 amended: a request sends nothing before it ends and ends in one of
\* six outcomes: success (200), invalidCredentials (401), rateLimited (429),
\* locked (429), internalError (500), and 400 when email or password is
\* missing in the body.
C16_SixOutcomes ==
    \A r \in Reqs :
       /\ req[r].pc # "done" => req[r].status = 0 /\ req[r].body = "none"
       /\ req[r].pc = "done"
            => /\ [status |-> req[r].status, body |-> req[r].body] = Response(req[r])
               /\ req[r].status \in {200, 400, 401, 429, 500}
               /\ ~ req[r].threw /\ req[r].rate = "allow" /\ req[r].email # Null
                    => req[r].lockout # "none"
               /\ ~ req[r].threw /\ req[r].lockout = "open"
                    => req[r].verdict \in {"ok", "error"}

C16_Witness ==
    \E r \in Reqs :
       /\ req[r].pc = "done"
       /\ req[r].rate = "allow"
       /\ req[r].email = Null
       /\ req[r].status = 400
       /\ req[r].body = FIELDS_REQUIRED

\* The requests for (email, ipAddress) that passed the lockout check and
\* have not yet recorded their outcome.
InFlight(email, ipAddress) ==
    Cardinality({r \in Reqs : /\ req[r].email = email
                              /\ req[r].ip = ipAddress
                              /\ req[r].pc \in {"PROVIDER_AUTH", "RECORD_OUTCOME"}})

\* C17: requests served at the same time can all pass the lockout check
\* before any of them records its failure, so a pair can get more than 5
\* failed rows in one window; but the failed rows of a pair and the requests
\* in flight for it together never exceed 4 plus the number of requests
\* served at the same time, so the excess over 5 stays below that number.
C17_RaceExcessBounded ==
    \A e \in Emails, i \in IPs :
       FailedAged(e, i, AnyAge) + InFlight(e, i)
          <= (MAX_FAILURES - 1) + Cardinality(Reqs)

C17_Witness ==
    \E e \in Emails, i \in IPs :
       /\ FailedAged(e, i, Inside) > MAX_FAILURES
       /\ \A r \in Reqs :
             /\ req[r].email = e
             /\ req[r].ip = i
             /\ req[r].pc = "done"
             /\ req[r].lockout = "open"
             /\ req[r].status = 401

\* C18: a request rejected as locked adds nothing to login_attempts, and
\* the verdict of the lockout check is "locked" exactly while 5 or more
\* failed rows of the pair are less than 15 minutes old: with 5 failures the
\* pair is open again 15 minutes after the oldest of them, whatever was
\* rejected meanwhile.
C18_NoLockoutExtension ==
    [][\A r \in Reqs :
          req[r].pc = "LOCKOUT_CHECK" /\ req'[r].pc # "LOCKOUT_CHECK"
             => /\ req'[r].lockout = "locked" => login_attempts' = login_attempts
                /\ req'[r].rpc = "ok"
                     => (req'[r].lockout = "locked"
                           <=> FailedAged(req[r].email, req[r].ip, Inside)
                                  >= MAX_FAILURES)]_vars

C18_Witness ==
    \E r \in Reqs :
       /\ req[r].pc = "PROVIDER_AUTH"
       /\ req[r].lockout = "open"
       /\ FailedAged(req[r].email, req[r].ip, {WINDOW}) = MAX_FAILURES
       /\ FailedAged(req[r].email, req[r].ip, AnyAge) = MAX_FAILURES
       /\ SecurityEvent(Null, ACCOUNT_LOCKED, req[r].ip, now - WINDOW)
             \in BagToSet(security_events)

\* C19: the response to a login the provider refused does not depend on the
\* reason of the refusal or on the email: any two requests the provider
\* refused get the same response, status 401 with the fixed message.
C19_RefusalsIndistinguishable ==
    \A r1 \in Reqs, r2 \in Reqs :
       /\ req[r1].pc = "done" /\ req[r1].verdict = "error"
       /\ req[r2].pc = "done" /\ req[r2].verdict = "error"
       => /\ req[r1].status = req[r2].status
          /\ req[r1].body = req[r2].body
          /\ req[r1].status = 401
          /\ req[r1].body = INVALID_CREDENTIALS

C19_Witness ==
    \E r1 \in Reqs, r2 \in Reqs :
       /\ req[r1].pc = "done" /\ req[r1].verdict = "error"
       /\ req[r2].pc = "done" /\ req[r2].verdict = "error"
       /\ req[r1].reason # req[r2].reason
       /\ req[r1].email # req[r2].email
       /\ req[r1].ip = req[r2].ip
       /\ req[r1].body = req[r2].body
       /\ req[r1].status = 401 /\ req[r2].status = 401

\* C20: a logSecurityEvent call returns to its caller whether or not the
\* event store took the row and whether or not the alert went out: the step
\* of the handler that makes the call ends the request with the status of
\* its branch (429 when locked, 200 or 401 by the provider's verdict, 500 in
\* the catch), and the call itself never sends the handler to the catch.
C20_EventFailureNotEscalated ==
    [][\A r \in Reqs :
          Len(req'[r].events) > Len(req[r].events)
             => /\ req'[r].pc = "done"
                /\ req'[r].threw = req[r].threw
                /\ req'[r].status =
                     CASE req[r].pc = "LOCKOUT_CHECK" -> 429
                       [] req[r].pc = "EVENT_LOG"
                            -> IF req[r].verdict = "ok" THEN 200 ELSE 401
                       [] req[r].pc = "CATCH" -> 500
                       [] OTHER -> 0]_vars

C20_Witness ==
    \E r \in Reqs :
       /\ req[r].pc = "done"
       /\ req[r].status = 200
       /\ ~ req[r].threw
       /\ req[r].events = <<[event_type |-> LOGIN_SUCCESS,
                             user_id |-> UserId(req[r].email),
                             stored |-> FALSE]>>
       /\ Size(security_events) = 0

\* Rows of security_events with the event type.
EventsOfType(eventType) ==
    Size(Filter(security_events, LAMBDA ev : ev.event_type = eventType))

\* C21: the critical classification is exactly suspicious activity, account
\* locked, unauthorized access and data deletion: for every event type of the
\* enumeration, every recorded event of a critical type has its alert out
\* (and an alert goes out without a row only when the store answered the
\* insert with an error), and no alert ever goes out for any other type.
C21_AlertIffCritical ==
    \A t \in SecurityEventType :
       IF t \in {"suspicious_activity", "account_locked", "unauthorized_access",
                 "data_deletion"}
       THEN /\ CopiesIn(t, alerts) >= EventsOfType(t)
            /\ CopiesIn(t, alerts) <= EventsOfType(t) + faults
       ELSE CopiesIn(t, alerts) = 0

\* A data_deletion event and a login_failure event are recorded, and the one
\* alert that is out is the one for data_deletion.
C21_Witness ==
    /\ EventsOfType("data_deletion") = 1
    /\ EventsOfType("login_failure") = 1
    /\ CopiesIn("data_deletion", alerts) = 1
    /\ Size(alerts) = 1

\* The identities the origin has a failed attempt for that is at most `age`
\* minutes old.
FailedTargets(ipAddress, age) ==
    {e \in {Targets[k] : k \in DOMAIN Targets} :
       \E r \in BagToSet(login_attempts) :
          /\ r.email = e
          /\ r.ip_address = ipAddress
          /\ ~ r.successful
          /\ now - r.attempted_at <= age}

\* C22: Rule C. A check of an origin IP that the store answers flags the IP
\* exactly when its failed attempts of the last 60 minutes are for more than
\* 10 distinct identities: 11 identities flag it, 10 do not, however many rows
\* there are, and the lockout of the single pairs has no part in it.
C22_FanOutRule ==
    (ret.op = "checkSuspiciousIP" /\ ret.ok)
        => (ret.value <=> Cardinality(FailedTargets(ret.ip, 60)) >= 11)

\* The origin is flagged for 11 identities with one failed attempt each, and
\* none of the 11 pairs is locked.
C22_Witness ==
    /\ ret.op = "checkSuspiciousIP" /\ ret.ok /\ ret.value
    /\ Cardinality(FailedTargets(ret.ip, 60)) = 11
    /\ \A k \in 1 .. 11 :
          /\ RowsOf(login_attempts, Targets[k], ret.ip) = 1
          /\ ~ is_account_locked(login_attempts, now, Targets[k], ret.ip)

\* LOGIN_FAILURE events of the subject that are at most `age` minutes old.
FailuresOf(userId, age) ==
    Size(Filter(security_events, LAMBDA e : /\ e.user_id = userId
                                           /\ e.event_type = "login_failure"
                                           /\ now - e.created_at <= age))

\* C23: Rule A. When the store answers, detectSuspiciousActivity reports the
\* subject as suspicious with the reason 'Multiple failed login attempts' if
\* the subject has 5 or more LOGIN_FAILURE events of the last 15 minutes, and
\* does not give that reason if it has 4 or fewer.
C23_RuleA ==
    (ret.op = "detectSuspiciousActivity" /\ ret.first = "ok" /\ ret.second = "ok")
        => /\ FailuresOf(ret.user_id, 15) >= 5
                => ret.value = [threw |-> FALSE, suspicious |-> TRUE,
                                reason |-> "Multiple failed login attempts"]
           /\ FailuresOf(ret.user_id, 15) <= 4
                => ret.value.reason # "Multiple failed login attempts"

\* A subject with exactly 5 failed logins of the last 15 minutes is reported.
C23_Witness ==
    /\ ret.op = "detectSuspiciousActivity" /\ ret.first = "ok"
    /\ FailuresOf(ret.user_id, 15) = 5
    /\ FailuresOf(ret.user_id, 0) < 5
    /\ ret.value.suspicious
    /\ ret.value.reason = "Multiple failed login attempts"

\* Origins of the subject's events that are at most `age` minutes old.
OriginsOf(userId, age) ==
    {e.ip_address : e \in {x \in BagToSet(security_events) :
                              /\ x.user_id = userId
                              /\ now - x.created_at <= age}}

\* C24: Rule B is evaluated independently of Rule A. When the store answers,
\* a subject whose events of the last 60 minutes come from more than 3
\* distinct origins is reported with the reason 'Multiple IP addresses in
\* short time', by detectSuspiciousActivity and by checkSuspiciousLogin,
\* whether or not Rule A holds for the subject; a subject with 3 or fewer
\* origins is not given that reason.
C24_RuleBIndependent ==
    /\ ret.op = "detectSuspiciousActivity"
          => (ret.value.reason = "Multiple IP addresses in short time"
                 <=> Cardinality(OriginsOf(ret.user_id, 60)) > 3)
    /\ ret.op = "checkSuspiciousLogin"
          => ("Multiple IP addresses in short time" \in ret.value.reasons
                 <=> Cardinality(OriginsOf(ret.user_id, 60)) > 3)

\* The selects of an evaluation, in the order they are made, up to the first
\* that rejected inside detectSuspiciousActivity or checkSuspiciousLogin.
Selects(r) ==
    CASE r.op = "detectSuspiciousActivity" ->
            IF r.first = "throw" THEN <<r.first>> ELSE <<r.first, r.second>>
      [] r.op = "checkSuspiciousIP" -> <<IF r.ok THEN "ok" ELSE "error">>
      [] r.op = "checkSuspiciousLogin" ->
            IF r.q1 = "throw" THEN <<r.q1>>
            ELSE IF r.q2 = "throw" THEN <<r.q1, r.q2>>
            ELSE <<r.q1, r.q2, r.q3>>

\* The evaluation resolved with 'not suspicious'.
Cleared(r) ==
    CASE r.op = "detectSuspiciousActivity" ->
            ~ r.value.threw /\ ~ r.value.suspicious
      [] r.op = "checkSuspiciousIP" -> r.value = FALSE
      [] r.op = "checkSuspiciousLogin" -> ~ r.value.suspicious

\* C25: the suspicious-activity heuristic is read-only and advisory: an
\* evaluation by detectSuspiciousActivity, checkSuspiciousIP or
\* checkSuspiciousLogin leaves every row of login_attempts and of
\* security_events as it was, and an evaluation in which the store failed
\* every select resolves with 'not suspicious'.
C25_HeuristicReadOnly ==
    [][ret'.op \in {"detectSuspiciousActivity", "checkSuspiciousIP",
                    "checkSuspiciousLogin"}
         => /\ login_attempts' = login_attempts
            /\ security_events' = security_events
            /\ (\A k \in DOMAIN Selects(ret') : Selects(ret')[k] # "ok")
                  => Cleared(ret')]_vars

\* C26: the attempt ledger is append-only except for clearFailedAttempts. No
\* other operation removes or changes a row of login_attempts: every row stays,
\* as often as it was there. clearFailedAttempts(email, ip) that the store
\* carries out leaves exactly the rows that are successful or of another
\* email or of another IP (cleared is the pair of the last one carried out),
\* and one that the store fails (with an error or by rejecting) returns all
\* the same and leaves the table as it was.
C26_LedgerAppendOnly ==
    [][IF ret'.op = "clearFailedAttempts"
       THEN login_attempts' =
               IF ret'.ok
               THEN [r \in {x \in DOMAIN login_attempts :
                               \/ x.successful
                               \/ x.email # cleared'.email
                               \/ x.ip_address # cleared'.ip}
                       |-> login_attempts[r]]
               ELSE login_attempts
       ELSE login_attempts \sqsubseteq login_attempts']_vars

\* Failed rows of a pair were cleared, and the successful row of the pair is
\* still in the table.
C26_Witness ==
    /\ ret.op = "clearFailedAttempts" /\ ret.ok
    /\ cleared.had >= 2
    /\ \E r \in BagToSet(login_attempts) :
          r.email = cleared.email /\ r.ip_address = cleared.ip /\ r.successful
    /\ RowsOf(login_attempts, cleared.email, cleared.ip) = 1

\* Rows of security_events without a subject.
Anonymous(events) == Size(Filter(events, LAMBDA e : e.user_id = "null"))

C28_FivePostsBeforeLimit ==
    [][/\ \A i \in Clients :
             (posts'[i] = posts[i] + 1 /\ ret'.response.status = 429)
                => posts'[i] > CAPACITY
       /\ \A r \in Reqs :
             (req[r].pc = "RATE_CHECK" /\ req'[r].status = 429)
                => posts'[req'[r].ip] > CAPACITY]_vars

\* C29: no request for a path that starts with /api/email/send passes the
\* middleware towards its handler unless its x-api-key header equals
\* INTERNAL_API_KEY, whatever the Cloudflare guard and the rate limiters
\* answer.
C29_EmailNeedsKey ==
    (/\ ret.op = "middleware"
     /\ StartsWith(ret.pathname, API_EMAIL_SEND)
     /\ ret.response.next)
       => ret.key

\* C30: every request for /api/* that the middleware lets continue has
\* passed aj.protect, and ajAuth.protect too on an authentication path; and
\* a response of cloudflareGuard that the middleware returns early is a 403.
C30_LimitedOrBlocked ==
    ret.op = "middleware" =>
       /\ (StartsWith(ret.pathname, API) /\ ret.response.next) =>
              /\ ret.api = "allow"
              /\ AuthPath(ret.pathname) => ret.auth = "allow"
       /\ ret.guarded => ret.response.status = 403

\* The rows of a sequence, as a bag.
Rows(s) ==
    [x \in {s[k] : k \in DOMAIN s} |-> Cardinality({k \in DOMAIN s : s[k] = x})]

\* C31: the history of an identity holds rows of that identity only, most
\* recent first, as many as the limit allows, and none of the rows left out
\* is more recent than a row returned; on a store error it is empty.
C31_HistoryRecentFirst ==
    ret.op = "getLoginHistory" =>
       LET own == Filter(login_attempts, LAMBDA r : r.email = ret.email)
           got == Rows(ret.value)
           rest == own (-) got
       IN  IF ret.ok
           THEN /\ \A k \in DOMAIN ret.value : ret.value[k].email = ret.email
                /\ got \sqsubseteq own
                /\ Len(ret.value) = IF ret.limit < Size(own) THEN ret.limit
                                     ELSE Size(own)
                /\ \A j, k \in DOMAIN ret.value :
                      j < k => ret.value[j].attempted_at >= ret.value[k].attempted_at
                /\ \A x \in BagToSet(rest), k \in DOMAIN ret.value :
                      x.attempted_at <= ret.value[k].attempted_at
           ELSE ret.value = <<>>

\* A history cut by the limit, of rows logged at different times.
C31_Witness ==
    /\ ret.op = "getLoginHistory"
    /\ ret.ok
    /\ Len(ret.value) = MaxLimit
    /\ ret.value[1].attempted_at > ret.value[MaxLimit].attempted_at
    /\ Size(Filter(login_attempts, LAMBDA r : r.email = ret.email)) > MaxLimit
    /\ \E x \in BagToSet(login_attempts) : x.email # ret.email

\* The failed rows of a pair in the 15 minutes that end at minute t.
FailedInWindow(email, ipAddress, t) ==
    Size(Filter(login_attempts,
                LAMBDA r : /\ r.email = email
                           /\ r.ip_address = ipAddress
                           /\ r.successful = FALSE
                           /\ r.attempted_at > t - WINDOW
                           /\ r.attempted_at <= t))

\* C32: with one login request at a time, no pair of identity and origin
\* ever has more than 5 failed rows inside a 15-minute window, whatever the
\* provider answers and however the clock moves between the steps. (The
\* windows are those that end now or at a row: the rows of any other window
\* all lie in the window that ends at the latest of them.)
C32_AtMostFiveInWindow ==
    \A x \in BagToSet(login_attempts) :
       \A t \in {x.attempted_at, now} :
          FailedInWindow(x.email, x.ip_address, t) <= MAX_FAILURES

\* A pair with 5 failed rows in the window that ends now, logged before and
\* after the clock moved, and a request for it refused as locked.
C32_Witness ==
    \E r \in Reqs :
       /\ req[r].pc = "done"
       /\ req[r].lockout = "locked"
       /\ FailedInWindow(req[r].email, req[r].ip, now) = MAX_FAILURES
       /\ FailedAged(req[r].email, req[r].ip, {0}) > 0
       /\ FailedAged(req[r].email, req[r].ip, {WINDOW - 1}) > 0

\* C33: an unlocked decision always leaves at least one attempt: when
\* checkAccountLockout answers locked = false with remainingAttempts, that
\* number is 5 minus the failures the lock test counted and lies between 1
\* and 5, also with a failure exactly on the boundary of the window.
C33_UnlockedLeavesAnAttempt ==
    (Evaluated /\ ~ ret.value.locked /\ ret.value.remainingAttempts # {})
       => /\ ret.value.remainingAttempts =
                {MAX_FAILURES - failed_attempts(login_attempts, now, ret.email,
                                                ret.ip)}
          /\ ret.value.remainingAttempts \subseteq 1 .. MAX_FAILURES

\* C34: the lockout check of the secure-login route and checkAccountLockout
\* of the auth-security utilities give the same locked verdict on every
\* ledger and for every outcome of the is_account_locked call, and a store
\* error in the lockout check does not by itself reject the login: the
\* request goes on to the provider.
C34_SameVerdict ==
    [][\A r \in Reqs :
          req[r].pc = "LOCKOUT_CHECK" /\ req'[r].pc # "LOCKOUT_CHECK"
             => /\ (req'[r].lockout = "locked")
                      = checkAccountLockout(login_attempts, now, req[r].email,
                                            req[r].ip, req'[r].rpc, "ok").locked
                /\ req'[r].rpc # "ok" => req'[r].pc = "PROVIDER_AUTH"]_vars

\* The failed login requests for an email in the last 15 minutes, as the
\* ledger has them.
FailedLogins(email) ==
    Size(Filter(login_attempts,
                LAMBDA r : /\ r.email = email
                           /\ r.successful = FALSE
                           /\ r.attempted_at >= now - SUSPICIOUS_MINUTES))

\* C35: failed password logins become visible to Rule A: after 5 failed
\* login requests for an account within 15 minutes detectSuspiciousActivity
\* for the subject of that account reports suspicious.
C35_FailuresVisibleToRuleA ==
    (ret.op = "detectSuspiciousActivity" /\ ret.first = "ok")
       => \A e \in Emails :
             (UserId(e) = ret.user_id /\ FailedLogins(e) >= SUSPICIOUS_FAILURES)
                => ret.value.suspicious

\* C35 amended: failed password logins are not visible to Rule A: every
\* LOGIN_FAILURE event the login route writes has no subject, and
\* detectSuspiciousActivity for the subject of an account does not report
\* multiple failed login attempts on account of them.
C35_FailuresCarryNoSubject ==
    /\ \A x \in BagToSet(security_events) :
          x.event_type = LOGIN_FAILURE => x.user_id = Null
    /\ ret.op = "detectSuspiciousActivity" => ret.value.reason # MULTIPLE_FAILED

\* Five failed logins for an account in 15 minutes, five login_failure
\* events, and its subject found not suspicious.
C35_Witness ==
    /\ ret.op = "detectSuspiciousActivity"
    /\ \E e \in Emails : UserId(e) = ret.user_id
                          /\ FailedLogins(e) >= SUSPICIOUS_FAILURES
    /\ Size(Filter(security_events,
                   LAMBDA x : x.event_type = LOGIN_FAILURE)) >= SUSPICIOUS_FAILURES
    /\ ret.value = NotSuspicious

\* C36: every login request eventually ends with a response, whichever
\* calls fail on the way, the insert of the catch handler included.
C36_EveryRequestAnswered ==
    (req[1].pc \notin {"idle", "done"})
       ~> (req[1].pc = "done" /\ req[1].status # 0)

\* A request whose provider call threw and whose catch handler could not
\* store the event either, answered with 500.
C36_Witness ==
    /\ req[1].pc = "done"
    /\ req[1].threw
    /\ req[1].signIn = 1
    /\ req[1].status = 500
    /\ Len(req[1].events) = 1
    /\ ~ req[1].events[1].stored


\* C37: whatever maxRequests >= 0 and windowMs > 0 the callers pass, after
\* every call of checkRateLimit the window of any identifier has allowed no
\* more than maxRequests calls between its start and its resetAt, the remaining
\* returned is not negative, and the count of every other identifier is what
\* it was before the call.
C37_AtMostMaxRequests ==
    [][ret'.op = "checkRateLimit" =>
          /\ \A k \in Identifiers : grants'[k].n <= quota.maxRequests
          /\ ret'.value.remaining >= 0
          /\ \A j \in Identifiers \ {ret'.identifier} :
                 rateLimitMap'[j].count = rateLimitMap[j].count]_vars

\* C38: a denied call of checkRateLimit changes nothing in the map; a call
\* made after the resetAt the identifier's window was given is allowed; and
\* a call made within the window leaves its resetAt where it was.
C38_DeniedChangesNothing ==
    [][ret'.op = "checkRateLimit" =>
          LET k == ret'.identifier IN
          /\ ~ret'.value.allowed => rateLimitMap' = rateLimitMap
          /\ unswept[k].present /\ now > unswept[k].resetAt
                => ret'.value.allowed
          /\ rateLimitMap[k].present /\ now <= rateLimitMap[k].resetAt
                => rateLimitMap'[k].resetAt = rateLimitMap[k].resetAt]_vars

\* A call is denied at the last instant of a window that is used up.
C38_Witness ==
    /\ ret.op = "checkRateLimit"
    /\ ~ret.value.allowed
    /\ quota.maxRequests >= 1
    /\ rateLimitMap[ret.identifier].count = quota.maxRequests
    /\ rateLimitMap[ret.identifier].resetAt = now
    /\ grants[ret.identifier].n = quota.maxRequests

\* C39: every call of checkRateLimit returns what the same call returns on
\* the map that no cleanup has touched.
C39_CleanupUnobservable ==
    ret.op = "checkRateLimit" => ret.value = ret.unswept

\* A call for an identifier whose expired entry the cleanup had deleted.
C39_Witness ==
    /\ ret.op = "checkRateLimit"
    /\ ret.swept
    /\ ret.value.allowed
    /\ unswept[ret.identifier].count = 1



\* C40: a deletion POST of a user who has a request with deleted_at unset
\* leaves the rows of data_retention_policy and security_events as they were
\* and, when it is answered, answers success = false; after a cancel (GET)
\* that is answered the user has no pending request; and a POST answered
\* success = true for a user without a row leaves a pending row scheduled
\* 30 days after the present time.
C40_OnePendingRequest ==
    [][/\ (ret'.op = "gdpr/delete-account" /\ ret'.user # Null
            /\ Pending(data_retention_policy, ret'.user))
          => /\ data_retention_policy' = data_retention_policy
             /\ security_events' = security_events
             /\ ret'.status = 200 => ret'.success = "false"
       /\ (ret'.op = "gdpr/cancel" /\ ret'.success = "true")
          => ~ Pending(data_retention_policy', ret'.user)
       /\ (ret'.op = "gdpr/delete-account" /\ ret'.success = "true"
            /\ ~ HasPolicy(data_retention_policy, ret'.user))
          => /\ Pending(data_retention_policy', ret'.user)
             /\ PolicyOf(data_retention_policy', ret'.user)
                   .deletion_scheduled_for = now + GRACE]_vars


=============================================================================
